---------------------------- MODULE Spec2Model ----------------------------
(***************************************************************************)
(* A model of ntxbuild: the workspace locator (utils.py), the environment  *)
(* state store (env_data.py), the builder (build.py) and the command line  *)
(* front end (cli.py).                                                     *)
(*                                                                         *)
(* Text is modelled as a sequence of one-character strings, so that the    *)
(* conversions the program applies to it (configparser's stripping and     *)
(* interpolation, pathlib's parent and join) are computed, not assumed.    *)
(* The filesystem is reliable: a write or unlink in an existing directory  *)
(* succeeds.                                                               *)
(***************************************************************************)
EXTENDS Integers, Sequences, FiniteSets, TLC

(* ------------------------------ bounds -------------------------------- *)

\* Longest option text (directory name, build tool name) that is enumerated.
MaxNameLen == 2

\* Depth of the deepest directory of the chain /, /d, /d/d, ...
MaxDepth == 2

(* ------------------------------- text --------------------------------- *)

\* The characters option texts are built from: an ordinary character, a
\* blank and configparser's interpolation character.
Chars == {"n", " ", "%"}

Names == UNION {[1..k -> Chars] : k \in 0..MaxNameLen}

\* utils.py: NUTTX_DEFAULT_DIR_NAME, NUTTX_APPS_DEFAULT_DIR_NAME ("nuttx",
\* "nuttx-apps"), each abbreviated to one character.
NUTTX_DEFAULT_DIR_NAME == <<"n">>

NUTTX_APPS_DEFAULT_DIR_NAME == <<"a">>

\* The names a directory entry of the modelled filesystem can have.
EntryNames == {NUTTX_DEFAULT_DIR_NAME, NUTTX_APPS_DEFAULT_DIR_NAME}

(* ------------------------------ pathlib ------------------------------- *)

\* Path("/")
RootPath == <<"/">>

RECURSIVE LastSlash(_, _)
\* The index of the last "/" of s at or before i (0 if none).
LastSlash(s, i) ==
    IF i = 0 THEN 0
    ELSE IF s[i] = "/" THEN i
    ELSE LastSlash(s, i - 1)

\* PurePath.parent: the path without its last component; the root is its
\* own parent.
Parent(path) ==
    LET k == LastSlash(path, Len(path))
    IN  IF path = RootPath THEN RootPath
        ELSE IF k <= 1 THEN RootPath
        ELSE SubSeq(path, 1, k - 1)

\* PurePath.__truediv__ with a relative name: joining the empty name gives
\* the path itself.
Join(path, name) ==
    IF name = <<>> THEN path
    ELSE IF path = RootPath THEN path \o name
    ELSE path \o <<"/">> \o name

RECURSIVE DirAt(_)
\* The directory at depth k of the chain: /, /d, /d/d, ...
DirAt(k) == IF k = 0 THEN RootPath ELSE Join(DirAt(k - 1), <<"d">>)

\* The directories of the chain; all of them exist.
Dirs == {DirAt(k) : k \in 0..MaxDepth}

\* The paths whose existence varies: the entries of the chain's directories.
EntryPaths == {Join(d, e) : d \in Dirs, e \in EntryNames}

(* ------------------------------ state --------------------------------- *)

VARIABLES
    entries,    \* the entry paths (of EntryPaths) that exist on disk
    found,      \* the last call of find_nuttx_root and what it did
    ntxenv,     \* the .ntxenv file of each existing workspace directory
    envCall,    \* the last call of the environment state store
    lastSave,   \* the arguments of the save that wrote the file as it is
    markers,    \* the marker files of the builder's nuttx and apps paths
    rel_apps_path,  \* NuttXBuilder.rel_apps_path
    buildCall,  \* the last call of a NuttXBuilder method
    cwd,        \* the directory the shell runs commands of the CLI in
    cliCall,    \* the last command of the CLI and what it did
    osenv,      \* the four Kconfig variables in os.environ and in the
                \* environment of the process
    procCwd,    \* the working directory of the process that uses config.py
    tree,       \* which parts of the workspace of the ConfigManager exist
    disk,       \* the .config file of each directory
    mgr,        \* the ConfigManager instance, or None
    kcCall,     \* the last call of a ConfigManager method
    process,    \* the child of run_make_command and its two pipes
    runner,     \* where run_make_command is and what it has read
    boardDirs,  \* the board directories under boards/ and their configs/
    explorer,   \* the NuttxBoardExplorer instance
    setCalls,   \* the set_arch, set_soc and set_board calls made on it
    nxCall      \* the last call of nuttx.py and what it returned

locVars == <<entries, found>>

envVars == <<ntxenv, envCall, lastSave>>

buildVars == <<markers, rel_apps_path, buildCall>>

cliVars == <<cwd, cliCall>>

kcVars == <<osenv, procCwd, tree, disk, mgr, kcCall>>

runVars == <<process, runner>>

nxVars == <<boardDirs, explorer, setCalls, nxCall>>

vars == <<entries, found, ntxenv, envCall, lastSave, markers, rel_apps_path,
          buildCall, cwd, cliCall, osenv, procCwd, tree, disk, mgr, kcCall,
          process, runner, boardDirs, explorer, setCalls, nxCall>>

\* No call has been made yet.
NoCall == [op |-> "none"]

(* ------------------------- utils.py: locate --------------------------- *)

\* Path.exists(): the chain's directories exist, an entry exists when it is
\* on disk.
Exists(path) == path \in Dirs \/ path \in entries

\* The condition of the loop body of find_nuttx_root.
HasBoth(path, nuttx_name, apps_name) ==
    Exists(Join(path, nuttx_name)) /\ Exists(Join(path, apps_name))

Return(value) == [outcome |-> "return", value |-> value]

Raise(exc) == [outcome |-> "raise", exc |-> exc]

\* Python's None.
None == [none |-> TRUE]

RECURSIVE find_nuttx_root_any(_, _, _)
\* A locator that accepts a directory holding either of the two names.
find_nuttx_root_any(path, nuttx_name, apps_name) ==
    IF path # Parent(path)
    THEN IF Exists(Join(path, nuttx_name)) \/ Exists(Join(path, apps_name))
         THEN Return(path)
         ELSE find_nuttx_root_any(Parent(path), nuttx_name, apps_name)
    ELSE Raise("FileNotFoundError")

RECURSIVE find_nuttx_root(_, _, _)
\* find_nuttx_root, from the resolved start path: while path != path.parent,
\* return path if both names exist in it, else go to the parent; after the
\* loop raise FileNotFoundError.
find_nuttx_root(path, nuttx_name, apps_name) ==
    IF path # Parent(path)
    THEN IF HasBoth(path, nuttx_name, apps_name)
         THEN Return(path)
         ELSE find_nuttx_root(Parent(path), nuttx_name, apps_name)
    ELSE Raise("FileNotFoundError")

\* The names a caller looks for.
LookupNames == EntryNames

\* The environment creates an entry (mkdir, touch).
Create(p) ==
    /\ p \notin entries
    /\ entries' = entries \cup {p}
    /\ found' = NoCall
    /\ UNCHANGED <<envVars, buildVars, cliVars,
                 kcVars, runVars, nxVars>>

\* The environment removes an entry.
Remove(p) ==
    /\ p \in entries
    /\ entries' = entries \ {p}
    /\ found' = NoCall
    /\ UNCHANGED <<envVars, buildVars, cliVars,
                 kcVars, runVars, nxVars>>

\* A call find_nuttx_root(start, nuttx_name, apps_name).
FindNuttxRoot(start, nuttx_name, apps_name) ==
    /\ found' = [op |-> "find_nuttx_root", start |-> start,
                 nuttx_name |-> nuttx_name, apps_name |-> apps_name,
                 result |-> find_nuttx_root(start, nuttx_name, apps_name)]
    /\ UNCHANGED <<entries, envVars, buildVars, cliVars,
                 kcVars, runVars, nxVars>>

\* The state store at rest: no workspace directory is tracked.
EnvIdle ==
    /\ ntxenv = <<>>
    /\ envCall = NoCall
    /\ lastSave = NoCall

\* The marker files of a complete workspace.
ValidMarkers ==
    [makefile |-> TRUE, inviolables |-> TRUE, apps |-> "dir",
     make_defs |-> TRUE]

\* The builder at rest: a complete workspace, no method called.
BuildIdle ==
    /\ markers = ValidMarkers
    /\ rel_apps_path = None
    /\ buildCall = NoCall

\* The CLI at rest: no command has run.
CliIdle ==
    /\ cwd = RootPath
    /\ cliCall = NoCall

\* config.py at rest: no ConfigManager, no file, the variables unset.
KcIdle ==
    /\ osenv = <<>>
    /\ procCwd = RootPath
    /\ tree = <<>>
    /\ disk = <<>>
    /\ mgr = None
    /\ kcCall = NoCall

\* utils.run_make_command at rest: no child, no call.
RunIdle ==
    /\ process = <<>>
    /\ runner = NoCall

\* nuttx.py at rest: no boards directory, no explorer, no call.
NxIdle ==
    /\ boardDirs = <<>>
    /\ explorer = None
    /\ setCalls = <<>>
    /\ nxCall = NoCall

InitLocate ==
    /\ entries \in SUBSET EntryPaths
    /\ found = NoCall
    /\ EnvIdle
    /\ BuildIdle
    /\ CliIdle
    /\ KcIdle
    /\ RunIdle
    /\ NxIdle

NextLocate ==
    \/ \E p \in EntryPaths : Create(p)
    \/ \E p \in EntryPaths : Remove(p)
    \/ \E start \in Dirs, a \in LookupNames, b \in LookupNames :
           FindNuttxRoot(start, a, b)

SpecLocate == InitLocate /\ [][NextLocate]_vars

(* ---------------------- claims on the locator ------------------------- *)

RECURSIVE Chain(_)
\* start, parent(start), ..., the filesystem root.
Chain(path) ==
    IF path = Parent(path) THEN {path} ELSE {path} \cup Chain(Parent(path))

\* The directories of the chain of `start` that contain both names.
Matches(start, a, b) == {d \in Chain(start) : HasBoth(d, a, b)}

\* The first directory of a non-empty set of chain directories, walking up
\* from the start: the deepest one.
Deepest(S) == CHOOSE d \in S : \A e \in S : Len(e) <= Len(d)

FindCalled == found.op = "find_nuttx_root"

\* C1: locate returns the first directory of the chain start, parent(start),
\* ..., filesystem root (the root included) that contains both children, and
\* raises FileNotFoundError iff no directory of that chain contains both.
C1_FirstOnChainRootIncluded ==
    FindCalled =>
        LET M == Matches(found.start, found.nuttx_name, found.apps_name)
        IN  /\ (found.result = Raise("FileNotFoundError")) <=> (M = {})
            /\ M # {} => found.result = Return(Deepest(M))

RECURSIVE LStrip(_)
LStrip(s) == IF s # <<>> /\ Head(s) = " " THEN LStrip(Tail(s)) ELSE s

RECURSIVE RStrip(_)
RStrip(s) ==
    IF s # <<>> /\ s[Len(s)] = " " THEN RStrip(SubSeq(s, 1, Len(s) - 1)) ELSE s

\* str.strip(): the parser strips the text after "key =".
Strip(s) == RStrip(LStrip(s))

RECURSIVE LonePercent(_, _)
\* Whether s, read from index i, holds a "%" that is not half of a "%%" pair:
\* what BasicInterpolation refuses, on set and on get.
LonePercent(s, i) ==
    IF i > Len(s) THEN FALSE
    ELSE IF s[i] # "%" THEN LonePercent(s, i + 1)
    ELSE IF i < Len(s) /\ s[i + 1] = "%" THEN LonePercent(s, i + 2)
    ELSE TRUE

RECURSIVE Interpolate(_, _)
\* BasicInterpolation.before_get on a text without a lone "%": every "%%"
\* becomes "%".
Interpolate(s, i) ==
    IF i > Len(s) THEN <<>>
    ELSE IF s[i] = "%" /\ i < Len(s) /\ s[i + 1] = "%"
         THEN <<"%">> \o Interpolate(s, i + 2)
    ELSE <<s[i]>> \o Interpolate(s, i + 1)

\* SectionProxy.get(key, fallback): the fallback for a key the section lacks,
\* else the stripped and interpolated text; "error" when the interpolation
\* raises InterpolationSyntaxError.
SectionGet(kv, key, fallback) ==
    IF key \notin DOMAIN kv THEN fallback
    ELSE LET text == Strip(kv[key])
         IN  IF LonePercent(text, 1) THEN [error |-> "InterpolationSyntaxError"]
             ELSE [text |-> Interpolate(text, 1)]

\* Path(text): pathlib drops a trailing slash.
PathOf(text) ==
    IF Len(text) > 1 /\ text[Len(text)] = "/"
    THEN SubSeq(text, 1, Len(text) - 1)
    ELSE text

(* ------------------- env_data.py: the state store --------------------- *)

Keys == {"nuttxspace_path", "nuttx_dir", "apps_dir", "build_tool"}

\* The default of the build_tool parameter and of its key, "make",
\* abbreviated to one character.
DEFAULT_BUILD_TOOL == <<"m">>

\* Contents of a .ntxenv file: absent, text configparser cannot parse, or an
\* INI file with or without the section [general] and its keys.
NoFile == [kind |-> "absent"]

Garbage == [kind |-> "garbage"]

Ini(general, kv) == [kind |-> "ini", general |-> general, kv |-> kv]

\* The file under a directory; a directory that is not tracked does not exist.
DirExists(dir) == dir \in DOMAIN ntxenv

FileAt(dir) == IF DirExists(dir) THEN ntxenv[dir] ELSE NoFile

\* A writer that files the apps directory name under both directory keys.
WrittenAppsTwice(nuttxspace_path, nuttx_dir, apps_dir, build_tool) ==
    Ini(TRUE, [k \in Keys |->
        CASE k = "nuttxspace_path" -> nuttxspace_path
          [] k = "nuttx_dir" -> apps_dir
          [] k = "apps_dir" -> apps_dir
          [] k = "build_tool" -> build_tool])

\* What save_ntx_env writes: "key = value" for the four keys under [general].
Written(nuttxspace_path, nuttx_dir, apps_dir, build_tool) ==
    Ini(TRUE, [k \in Keys |->
        CASE k = "nuttxspace_path" -> nuttxspace_path
          [] k = "nuttx_dir" -> nuttx_dir
          [] k = "apps_dir" -> apps_dir
          [] k = "build_tool" -> build_tool])

\* ConfigParser.set, reached from config["general"] = {...}: a non-empty
\* value with a lone "%" raises ValueError.
SetRaises(values) == \E v \in values : v # <<>> /\ LonePercent(v, 1)

\* save_ntx_env: the result of the call and the file it leaves. The section
\* is filled before the try block, so a ValueError propagates; a failure to
\* open the file is logged and swallowed.
save_ntx_env(nuttxspace_path, nuttx_dir, apps_dir, build_tool) ==
    IF SetRaises({nuttxspace_path, nuttx_dir, apps_dir, build_tool})
    THEN [result |-> Raise("ValueError"), file |-> FileAt(nuttxspace_path)]
    ELSE IF ~DirExists(nuttxspace_path)
    THEN [result |-> Return(None), file |-> NoFile]
    ELSE [result |-> Return(None),
          file |-> Written(nuttxspace_path, nuttx_dir, apps_dir, build_tool)]

\* Python truth of a value read: neither None nor the empty text.
Truthy(got) == "text" \in DOMAIN got /\ got.text # <<>>

\* load_ntx_env: os.chdir raises FileNotFoundError for a missing directory;
\* a missing file raises FileNotFoundError; a file configparser cannot parse
\* raises RuntimeError; a missing section, a missing or empty required key
\* or an exception while reading the keys returns None.
load_ntx_env(nuttxspace_path) ==
    LET file == FileAt(nuttxspace_path)
    IN  IF ~DirExists(nuttxspace_path) THEN Raise("FileNotFoundError")
        ELSE IF file.kind = "absent" THEN Raise("FileNotFoundError")
        ELSE IF file.kind = "garbage" THEN Raise("RuntimeError")
        ELSE IF ~file.general THEN Return(None)
        ELSE LET nuttxspace == SectionGet(file.kv, "nuttxspace_path", None)
                 nuttx_dir == SectionGet(file.kv, "nuttx_dir", None)
                 apps_dir == SectionGet(file.kv, "apps_dir", None)
                 build_tool ==
                     SectionGet(file.kv, "build_tool", [text |-> DEFAULT_BUILD_TOOL])
                 got == {nuttxspace, nuttx_dir, apps_dir, build_tool}
             IN  IF \E g \in got : "error" \in DOMAIN g
                 THEN Return(None)
                 ELSE IF ~(Truthy(nuttxspace) /\ Truthy(nuttx_dir)
                           /\ Truthy(apps_dir))
                 THEN Return(None)
                 ELSE Return([nuttxspace_path |-> PathOf(nuttxspace.text),
                              nuttx_dir |-> nuttx_dir.text,
                              apps_dir |-> apps_dir.text,
                              build_tool |-> build_tool.text])

\* clear_ntx_env that leaves the file in place.
clear_ntx_env_keep(nuttxspace_path) == FileAt(nuttxspace_path)

\* The body of clear_ntx_env on a file: unlink if the file exists.
Unlinked(file) == IF file.kind # "absent" THEN NoFile ELSE file

\* clear_ntx_env: the file it leaves.
clear_ntx_env(nuttxspace_path) == Unlinked(FileAt(nuttxspace_path))

\* The file of directory `dir` replaced; a directory that does not exist
\* holds no file.
WithFile(dir, file) ==
    IF DirExists(dir) THEN [ntxenv EXCEPT ![dir] = file] ELSE ntxenv

\* The record save_ntx_env is called with.
Record(nuttxspace_path, nuttx_dir, apps_dir, build_tool) ==
    [nuttxspace_path |-> nuttxspace_path, nuttx_dir |-> nuttx_dir,
     apps_dir |-> apps_dir, build_tool |-> build_tool]

\* A call save_ntx_env(...). lastSave follows the file: a save that raises
\* leaves both as they were.
SaveNtxEnv(path, nuttx_dir, apps_dir, build_tool) ==
    LET did == save_ntx_env(path, nuttx_dir, apps_dir, build_tool)
    IN  /\ ntxenv' = WithFile(path, did.file)
        /\ envCall' = [op |-> "save_ntx_env", nuttxspace_path |-> path,
                       result |-> did.result]
        /\ lastSave' = IF did.result = Return(None)
                       THEN Record(path, nuttx_dir, apps_dir, build_tool)
                       ELSE lastSave
        /\ UNCHANGED <<locVars, buildVars, cliVars,
                 kcVars, runVars, nxVars>>

LoadNtxEnv(path) ==
    /\ envCall' = [op |-> "load_ntx_env", nuttxspace_path |-> path,
                   result |-> load_ntx_env(path)]
    /\ UNCHANGED <<ntxenv, lastSave, locVars, buildVars, cliVars,
                 kcVars, runVars, nxVars>>

ClearNtxEnv(path) ==
    /\ ntxenv' = WithFile(path, clear_ntx_env(path))
    /\ envCall' = [op |-> "clear_ntx_env", nuttxspace_path |-> path,
                   existed |-> FileAt(path).kind # "absent",
                   result |-> Return(None)]
    /\ lastSave' = NoCall
    /\ UNCHANGED <<locVars, buildVars, cliVars,
                 kcVars, runVars, nxVars>>

\* A well-formed key table for the workspace `dir`.
BaseKv(dir) ==
    Written(dir, NUTTX_DEFAULT_DIR_NAME, NUTTX_APPS_DEFAULT_DIR_NAME,
            DEFAULT_BUILD_TOOL).kv

\* Files a user's editor can leave behind: unparseable text, no [general]
\* section, a key deleted, a key emptied, a key with a stray "%".
EditedFiles(dir) ==
    {Garbage, Ini(FALSE, <<>>)}
    \cup {Ini(TRUE, [x \in Keys \ {k} |-> BaseKv(dir)[x]]) : k \in Keys}
    \cup {Ini(TRUE, [BaseKv(dir) EXCEPT ![k] = <<>>]) : k \in Keys}
    \cup {Ini(TRUE, [BaseKv(dir) EXCEPT ![k] = <<"%">>]) : k \in Keys}

\* The user edits the .ntxenv file of an existing directory by hand.
EditFile(path, file) ==
    /\ DirExists(path)
    /\ ntxenv' = WithFile(path, file)
    /\ envCall' = NoCall
    /\ lastSave' = NoCall
    /\ UNCHANGED <<locVars, buildVars, cliVars,
                 kcVars, runVars, nxVars>>

\* The workspace paths of the state store's specification: a plain one, one
\* that ends with a blank and one with a "%".
WorkspacePaths == {DirAt(1), DirAt(1) \o <<" ">>, <<"/", "%">>}

\* A directory that does not exist.
MissingDir == <<"/", "x">>

\* The paths a call is made with: the workspace, or the missing directory.
CallPaths == DOMAIN ntxenv \cup {MissingDir}

InitEnv ==
    /\ entries = {}
    /\ found = NoCall
    /\ BuildIdle
    /\ CliIdle
    /\ KcIdle
    /\ RunIdle
    /\ NxIdle
    /\ \E ws \in WorkspacePaths : ntxenv = [d \in {ws} |-> NoFile]
    /\ envCall = NoCall
    /\ lastSave = NoCall

\* The names a save over an existing file, or into a missing directory, is
\* made with; a save into a fresh workspace takes any of Names.
ResaveNames == {NUTTX_DEFAULT_DIR_NAME, <<"%">>}

NextEnv ==
    \/ \E path \in DOMAIN ntxenv, nuttx_dir \in Names, apps_dir \in Names,
          build_tool \in Names :
           /\ FileAt(path) = NoFile
           /\ SaveNtxEnv(path, nuttx_dir, apps_dir, build_tool)
    \/ \E path \in CallPaths, nuttx_dir \in ResaveNames :
           SaveNtxEnv(path, nuttx_dir, NUTTX_APPS_DEFAULT_DIR_NAME,
                      DEFAULT_BUILD_TOOL)
    \/ \E path \in CallPaths : LoadNtxEnv(path)
    \/ \E path \in CallPaths : ClearNtxEnv(path)
    \/ \E path \in DOMAIN ntxenv : \E file \in EditedFiles(path) :
           EditFile(path, file)

SpecEnv == InitEnv /\ [][NextEnv]_vars

(* --------------------- claims on the state store ---------------------- *)

\* The last call was a load that followed, in the same workspace, a save that
\* returned, with nothing else touching the file in between.
LoadAfterSave ==
    /\ envCall.op = "load_ntx_env"
    /\ lastSave # NoCall
    /\ envCall.nuttxspace_path = lastSave.nuttxspace_path

Verbatim(text) ==
    /\ \A i \in 1..Len(text) : text[i] # "%"
    /\ text # <<>> => Head(text) # " " /\ text[Len(text)] # " "

RequiredKeys == {"nuttxspace_path", "nuttx_dir", "apps_dir"}

\* C4: load raises "not found" when the file is absent and raises a "corrupt"
\* condition when the file is present but the section or a required key is
\* missing or empty; it returns neither a record nor an empty result then.
C4_LoadRaisesOnAbsentOrCorrupt ==
    envCall.op = "load_ntx_env" =>
        LET file == FileAt(envCall.nuttxspace_path)
        IN  /\ file.kind = "absent"
                => envCall.result = Raise("FileNotFoundError")
            /\ (/\ file.kind = "ini"
                /\ \/ ~file.general
                   \/ \E k \in RequiredKeys :
                          k \notin DOMAIN file.kv \/ file.kv[k] = <<>>)
                => envCall.result.outcome = "raise"

\* C5: clear removes the record file when it exists and is a no-op without
\* error when it does not; after clear, load on the same workspace raises
\* FileNotFoundError, and a second clear leaves the state of the first.
C5_ClearRemovesAndIsIdempotent ==
    envCall.op = "clear_ntx_env" =>
        /\ envCall.result = Return(None)
        /\ FileAt(envCall.nuttxspace_path) = NoFile
        /\ load_ntx_env(envCall.nuttxspace_path) = Raise("FileNotFoundError")
        /\ clear_ntx_env(envCall.nuttxspace_path)
               = FileAt(envCall.nuttxspace_path)

\* C5 witness: clear has removed a record file that existed.
C5_Witness ==
    /\ envCall.op = "clear_ntx_env"
    /\ envCall.existed
    /\ FileAt(envCall.nuttxspace_path) = NoFile

(* ------------------------ build.py: the builder ----------------------- *)

\* Largest exit code of an external tool that is enumerated.
MaxExitCode == 3

ExitCodes == 0..MaxExitCode

\* PurePath.stem of a path whose last component holds no dot: that component.
Stem(path) == SubSeq(path, LastSlash(path, Len(path)) + 1, Len(path))

\* NuttXBuilder.__init__: the paths of the OS and apps directories under the
\* workspace. build.py names them "nuttx" and "nuttx-apps"; cli.py passes
\* the names of the environment record.
NuttXBuilder(nuttxspace_path, nuttx_dir, apps_dir) ==
    [nuttxspace_path |-> nuttxspace_path,
     nuttx_path |-> Join(nuttxspace_path, nuttx_dir),
     apps_path |-> Join(nuttxspace_path, apps_dir)]

\* The states of the marker files: Make.defs needs apps to be a directory.
MarkerStates ==
    {m \in [makefile : BOOLEAN, inviolables : BOOLEAN,
            apps : {"absent", "file", "dir"}, make_defs : BOOLEAN] :
        m.make_defs => m.apps = "dir"}

\* The messages validate_nuttx_environment returns.
EmptyMessage == [text |-> ""]

MakefileMissing(self) ==
    [text |-> "Invalid NuttX directory: ", path |-> self.nuttx_path]

InviolablesMissing(self) ==
    [text |-> "Invalid NuttX directory: ", path |-> self.nuttx_path]

AppsNotFound(self) ==
    [text |-> "Apps directory not found: ", path |-> self.apps_path]

AppsNotADirectory(self) ==
    [text |-> "Apps path is not a directory: ", path |-> self.apps_path]

MakeDefsMissing(self) ==
    [text |-> "Apps directory may not be properly configured (Make.defs missing): ",
     path |-> self.apps_path]

\* The value validate_nuttx_environment leaves in self.rel_apps_path.
RelAppsPath(self) ==
    IF Parent(self.nuttx_path) = Parent(self.apps_path)
    THEN <<".", ".", "/">> \o Stem(self.apps_path)
    ELSE self.apps_path

Validated(valid, message, rel) ==
    [valid |-> valid, message |-> message, rel_apps_path |-> rel]

\* A validation that looks for Make.defs before it tests that the apps path
\* is a directory.
validate_make_defs_first(self, m, rel) ==
    IF ~m.makefile THEN Validated(FALSE, MakefileMissing(self), rel)
    ELSE IF ~m.inviolables
    THEN Validated(FALSE, InviolablesMissing(self), rel)
    ELSE IF m.apps = "absent"
    THEN Validated(FALSE, AppsNotFound(self), RelAppsPath(self))
    ELSE IF ~m.make_defs
    THEN Validated(FALSE, MakeDefsMissing(self), RelAppsPath(self))
    ELSE IF m.apps # "dir"
    THEN Validated(FALSE, AppsNotADirectory(self), RelAppsPath(self))
    ELSE Validated(TRUE, EmptyMessage, RelAppsPath(self))

\* validate_nuttx_environment on marker files m, self.rel_apps_path being
\* rel: (is_valid, error_message) and the new self.rel_apps_path.
validate_nuttx_environment(self, m, rel) ==
    IF ~m.makefile THEN Validated(FALSE, MakefileMissing(self), rel)
    ELSE IF ~m.inviolables
    THEN Validated(FALSE, InviolablesMissing(self), rel)
    ELSE IF m.apps = "absent"
    THEN Validated(FALSE, AppsNotFound(self), RelAppsPath(self))
    ELSE IF m.apps # "dir"
    THEN Validated(FALSE, AppsNotADirectory(self), RelAppsPath(self))
    ELSE IF ~m.make_defs
    THEN Validated(FALSE, MakeDefsMissing(self), RelAppsPath(self))
    ELSE Validated(TRUE, EmptyMessage, RelAppsPath(self))

\* What can go wrong in setup_nuttx besides the script failing: the first
\* Path.exists of the validation raises (PermissionError), os.chdir raises,
\* or subprocess.call raises.
Faults == {"none", "stat", "chdir", "call"}

Boards == {"sim"}

Defconfigs == {"nsh", "nshhhh"}

\* The invocation of tools/configure.sh that _run_bash_script makes.
ConfigureSh(rel, board, defconfig) ==
    [script |-> "./tools/configure.sh", apps |-> rel, board |-> board,
     defconfig |-> defconfig]

SetUp(result, ran, rel) ==
    [result |-> result, ran |-> ran, rel_apps_path |-> rel]

\* A setup that reports every failure of the script as 1.
setup_nuttx_collapsing(self, m, rel, board, defconfig, fault, code) ==
    LET v == validate_nuttx_environment(self, m, rel)
        run == ConfigureSh(v.rel_apps_path, board, defconfig)
    IN  IF fault = "stat" THEN SetUp(Return(1), <<>>, rel)
        ELSE IF ~v.valid THEN SetUp(Return(1), <<>>, v.rel_apps_path)
        ELSE IF fault = "chdir" THEN SetUp(Return(1), <<>>, v.rel_apps_path)
        ELSE IF fault = "call" THEN SetUp(Return(1), <<>>, v.rel_apps_path)
        ELSE IF code # 0 THEN SetUp(Return(1), <<run>>, v.rel_apps_path)
        ELSE SetUp(Return(0), <<run>>, v.rel_apps_path)

\* setup_nuttx(board, defconfig): the value returned, the scripts that ran
\* and the new self.rel_apps_path. `code` is the exit code of the script if
\* it runs. An exception of os.chdir is caught by setup_nuttx, one of
\* subprocess.call by _run_bash_script; each gives 1, as does an exception
\* of the validation.
setup_nuttx(self, m, rel, board, defconfig, fault, code) ==
    LET v == validate_nuttx_environment(self, m, rel)
        run == ConfigureSh(v.rel_apps_path, board, defconfig)
    IN  IF fault = "stat" THEN SetUp(Return(1), <<>>, rel)
        ELSE IF ~v.valid THEN SetUp(Return(1), <<>>, v.rel_apps_path)
        ELSE IF fault = "chdir" THEN SetUp(Return(1), <<>>, v.rel_apps_path)
        ELSE IF fault = "call" THEN SetUp(Return(1), <<>>, v.rel_apps_path)
        ELSE IF code # 0 THEN SetUp(Return(code), <<run>>, v.rel_apps_path)
        ELSE SetUp(Return(0), <<run>>, v.rel_apps_path)

(* ------------------- build.py: the build commands --------------------- *)

\* subprocess.CompletedProcess, as far as its return code.
CompletedProcess(returncode) == [returncode |-> returncode]

\* A Python int.
PyInt(value) == [int |-> value]

\* The command lines the builder runs.
MakeCmd(args) == [program |-> "make", args |-> args]

\* _run_command with the tool exiting with `code`: the CompletedProcess when
\* the tool succeeds, the integer return code of CalledProcessError otherwise.
RunCommand(cmd, code) ==
    IF code = 0 THEN CompletedProcess(0) ELSE PyInt(code)

\* NuttXBuilder.build(parallel); parallel is None or a number of jobs.
build(parallel, code) ==
    RunCommand(MakeCmd(IF parallel # None /\ parallel # PyInt(0)
                       THEN <<[flag |-> "-j", jobs |-> parallel]>>
                       ELSE <<>>), code)

\* NuttXBuilder.distclean() and NuttXBuilder.clean() return nothing.
distclean(code) == None

clean(code) == None

\* The values of parallel: none, 0 and a number of jobs.
Parallels == {None, PyInt(0), PyInt(2)}

\* The builder of the builder's own specification: build.py's constructor on
\* the workspace /d.
TheBuilder ==
    NuttXBuilder(DirAt(1), NUTTX_DEFAULT_DIR_NAME, NUTTX_APPS_DEFAULT_DIR_NAME)

\* The environment creates or removes marker files.
TouchMarkers(m) ==
    /\ m # markers
    /\ markers' = m
    /\ buildCall' = NoCall
    /\ UNCHANGED <<rel_apps_path, locVars, envVars, cliVars,
                 kcVars, runVars, nxVars>>

ValidateNuttxEnvironment ==
    LET v == validate_nuttx_environment(TheBuilder, markers, rel_apps_path)
    IN  /\ buildCall' = [op |-> "validate_nuttx_environment",
                         valid |-> v.valid, message |-> v.message]
        /\ rel_apps_path' = v.rel_apps_path
        /\ UNCHANGED <<markers, locVars, envVars, cliVars,
                 kcVars, runVars, nxVars>>

SetupNuttx(board, defconfig, fault, code) ==
    LET did == setup_nuttx(TheBuilder, markers, rel_apps_path, board,
                           defconfig, fault, code)
    IN  /\ buildCall' = [op |-> "setup_nuttx", board |-> board,
                         defconfig |-> defconfig, fault |-> fault,
                         code |-> code, result |-> did.result,
                         ran |-> did.ran]
        /\ rel_apps_path' = did.rel_apps_path
        /\ UNCHANGED <<markers, locVars, envVars, cliVars,
                 kcVars, runVars, nxVars>>

\* A call builder.build(parallel) with the build tool exiting with `code`.
BuilderBuild(parallel, code) ==
    /\ buildCall' = [op |-> "build", parallel |-> parallel, code |-> code,
                     result |-> build(parallel, code)]
    /\ UNCHANGED <<markers, rel_apps_path, locVars, envVars, cliVars,
                 kcVars, runVars, nxVars>>

InitBuild ==
    /\ entries = {}
    /\ found = NoCall
    /\ EnvIdle
    /\ CliIdle
    /\ KcIdle
    /\ RunIdle
    /\ NxIdle
    /\ markers \in MarkerStates
    /\ rel_apps_path = None
    /\ buildCall = NoCall

NextBuild ==
    \/ \E m \in MarkerStates : TouchMarkers(m)
    \/ ValidateNuttxEnvironment
    \/ \E board \in Boards, defconfig \in Defconfigs, fault \in Faults,
          code \in ExitCodes :
           SetupNuttx(board, defconfig, fault, code)
    \/ \E parallel \in Parallels, code \in ExitCodes :
           BuilderBuild(parallel, code)

SpecBuild == InitBuild /\ [][NextBuild]_vars

(* ----------------------- cli.py: the commands ------------------------- *)

\* The marker files a builder sees: Makefile and INVIOLABLES.md are in the
\* directories named as the default OS directory, Make.defs in those named as
\* the default apps directory; `m` tells which of them are in place.
MarkersOf(self, m) ==
    [makefile |-> m.makefile /\ Stem(self.nuttx_path) = NUTTX_DEFAULT_DIR_NAME,
     inviolables |->
         m.inviolables /\ Stem(self.nuttx_path) = NUTTX_DEFAULT_DIR_NAME,
     apps |-> IF Stem(self.apps_path) = NUTTX_APPS_DEFAULT_DIR_NAME
              THEN m.apps ELSE "dir",
     make_defs |->
         m.make_defs /\ Stem(self.apps_path) = NUTTX_APPS_DEFAULT_DIR_NAME]

\* A prepare_env that makes up a record of the default names when the
\* directory holds no .ntxenv file.
prepare_env_defaulting(dir) ==
    LET env == load_ntx_env(dir)
    IN  IF env = Raise("FileNotFoundError")
        THEN Return(Record(dir, NUTTX_DEFAULT_DIR_NAME,
                           NUTTX_APPS_DEFAULT_DIR_NAME, DEFAULT_BUILD_TOOL))
        ELSE IF env.outcome = "raise" THEN env
        ELSE IF env.value = None THEN Raise("TypeError")
        ELSE env

\* prepare_env() of a command other than start, run in directory `dir`: the
\* record of the .ntxenv file there. A missing file becomes a
\* ClickException; a load that returns None fails at env["nuttxspace_path"].
prepare_env(dir) ==
    LET env == load_ntx_env(dir)
    IN  IF env = Raise("FileNotFoundError") THEN Raise("ClickException")
        ELSE IF env.outcome = "raise" THEN env
        ELSE IF env.value = None THEN Raise("TypeError")
        ELSE env

\* What a command did: the exit status of the process, the .ntxenv files it
\* leaves, the external commands it ran.
Exited(exit, store, ran) == [exit |-> exit, store |-> store, ran |-> ran]

Started(exit, store, root, setup, ran) ==
    [exit |-> exit, store |-> store, root |-> root, setup |-> setup,
     ran |-> ran]

\* A start that leaves the record in place when the setup fails.
start_keeping(dir, nuttx_dir, apps_dir, build_tool, board, defconfig, fault, code) ==
    LET loc == find_nuttx_root(dir, nuttx_dir, apps_dir)
    IN  IF loc.outcome = "raise" THEN Started(1, ntxenv, None, None, <<>>)
        ELSE
        LET root == loc.value
            saved == save_ntx_env(root, nuttx_dir, apps_dir, build_tool)
            builder == NuttXBuilder(root, nuttx_dir, apps_dir)
            setup == setup_nuttx(builder, MarkersOf(builder, markers), None,
                                 board, defconfig, fault, code)
        IN  IF saved.result.outcome = "raise"
            THEN Started(1, ntxenv, root, None, <<>>)
            ELSE Started(setup.result.value, WithFile(root, saved.file),
                         root, setup.result, setup.ran)

\* start, run in directory `dir`: locate the workspace and save the record
\* (prepare_env with start=True), set up, clear the record if the setup did
\* not return 0, exit with the setup's result. An exception of
\* find_nuttx_root or save_ntx_env ends the process with status 1.
start(dir, nuttx_dir, apps_dir, build_tool, board, defconfig, fault, code) ==
    LET loc == find_nuttx_root(dir, nuttx_dir, apps_dir)
    IN  IF loc.outcome = "raise" THEN Started(1, ntxenv, None, None, <<>>)
        ELSE
        LET root == loc.value
            saved == save_ntx_env(root, nuttx_dir, apps_dir, build_tool)
            builder == NuttXBuilder(root, nuttx_dir, apps_dir)
            setup == setup_nuttx(builder, MarkersOf(builder, markers), None,
                                 board, defconfig, fault, code)
        IN  IF saved.result.outcome = "raise"
            THEN Started(1, ntxenv, root, None, <<>>)
            ELSE IF setup.result.value # 0
            THEN Started(setup.result.value,
                         WithFile(root, Unlinked(saved.file)),
                         root, setup.result, setup.ran)
            ELSE Started(0, WithFile(root, saved.file), root, setup.result,
                         setup.ran)

\* build: sys.exit(result.returncode); the integer _run_command returns for a
\* failed tool has no returncode, and the AttributeError ends the process
\* with status 1, as does any exception of prepare_env.
cli_build(dir, parallel, code) ==
    LET env == prepare_env(dir)
        result == build(parallel, code)
    IN  IF env.outcome = "raise" THEN Exited(1, ntxenv, <<>>)
        ELSE IF "returncode" \in DOMAIN result
        THEN Exited(result.returncode, ntxenv, <<"make">>)
        ELSE Exited(1, ntxenv, <<"make">>)

\* clean: the result of builder.clean() is not looked at.
cli_clean(dir, code) ==
    LET env == prepare_env(dir)
    IN  IF env.outcome = "raise" THEN Exited(1, ntxenv, <<>>)
        ELSE Exited(0, ntxenv, <<"make clean">>)

\* distclean: the result of builder.distclean() is not looked at; the record
\* of the workspace named in the record is cleared.
cli_distclean(dir, code) ==
    LET env == prepare_env(dir)
    IN  IF env.outcome = "raise" THEN Exited(1, ntxenv, <<>>)
        ELSE Exited(0,
                    WithFile(env.value.nuttxspace_path,
                             clear_ntx_env(env.value.nuttxspace_path)),
                    <<"make distclean">>)

\* info without --binary.
cli_info(dir) ==
    LET env == prepare_env(dir)
    IN  IF env.outcome = "raise" THEN Exited(1, ntxenv, <<>>)
        ELSE Exited(0, ntxenv, <<>>)

\* The frame of every command: it changes .ntxenv files and nothing else.
CliFrame == UNCHANGED <<cwd, locVars, envCall, lastSave, buildVars,
                 kcVars, runVars, nxVars>>

Start(nuttx_dir, apps_dir, build_tool, board, defconfig, fault, code) ==
    LET did == start(cwd, nuttx_dir, apps_dir, build_tool, board, defconfig,
                     fault, code)
    IN  /\ ntxenv' = did.store
        /\ cliCall' = [op |-> "start", nuttx_dir |-> nuttx_dir,
                       apps_dir |-> apps_dir, build_tool |-> build_tool,
                       exit |-> did.exit, root |-> did.root,
                       setup |-> did.setup, ran |-> did.ran,
                       before |-> ntxenv]
        /\ CliFrame

\* A command other than start; `tool` is the exit code of the external tool
\* when it ran.
Command(op, did, code) ==
    /\ ntxenv' = did.store
    /\ cliCall' = [op |-> op, exit |-> did.exit, ran |-> did.ran,
                   tool |-> IF did.ran = <<>> THEN None ELSE [code |-> code],
                   before |-> ntxenv]
    /\ CliFrame

Build(parallel, code) == Command("build", cli_build(cwd, parallel, code), code)

Clean(code) == Command("clean", cli_clean(cwd, code), code)

Distclean(code) == Command("distclean", cli_distclean(cwd, code), code)

Info == Command("info", cli_info(cwd), 0)

\* The user changes directory.
Chdir(dir) ==
    /\ dir # cwd
    /\ cwd' = dir
    /\ cliCall' = NoCall
    /\ UNCHANGED <<locVars, envVars, buildVars,
                 kcVars, runVars, nxVars>>

\* The entries of a workspace in directory `dir`.
Workspace(dir) ==
    {Join(dir, NUTTX_DEFAULT_DIR_NAME), Join(dir, NUTTX_APPS_DEFAULT_DIR_NAME)}

\* The layouts of the disk: the two directories at the filesystem root, in
\* /d, or in both /d and /d/d.
Layouts ==
    {Workspace(RootPath), Workspace(DirAt(1)),
     Workspace(DirAt(1)) \cup Workspace(DirAt(2))}

\* The marker files of the CLI's specification: complete, or no Makefile.
CliMarkerStates == {ValidMarkers, [ValidMarkers EXCEPT !.makefile = FALSE]}

\* The values of --build-tool: the default, one with a leading blank, "%".
BuildTools == {DEFAULT_BUILD_TOOL, <<" ">> \o DEFAULT_BUILD_TOOL, <<"%">>}

CliFaults == {"none", "chdir"}

InitCli ==
    /\ entries \in Layouts
    /\ found = NoCall
    /\ ntxenv = [d \in Dirs |-> NoFile]
    /\ envCall = NoCall
    /\ lastSave = NoCall
    /\ markers \in CliMarkerStates
    /\ rel_apps_path = None
    /\ buildCall = NoCall
    /\ cwd \in Dirs
    /\ cliCall = NoCall
    /\ KcIdle
    /\ RunIdle
    /\ NxIdle

NextCli ==
    \/ \E nuttx_dir \in EntryNames, apps_dir \in EntryNames,
          build_tool \in BuildTools, board \in Boards, fault \in CliFaults,
          code \in ExitCodes :
           Start(nuttx_dir, apps_dir, build_tool, board, "nsh", fault, code)
    \/ \E parallel \in Parallels, code \in ExitCodes : Build(parallel, code)
    \/ \E code \in ExitCodes : Clean(code)
    \/ \E code \in ExitCodes : Distclean(code)
    \/ Info
    \/ \E dir \in Dirs : Chdir(dir)
    \/ \E m \in CliMarkerStates : TouchMarkers(m)

SpecCli == InitCli /\ [][NextCli]_vars

(* ------------------------ Claims on the builder ----------------------- *)

\* The checks of the validation, in the order the claims give them.
Checks == <<"makefile", "inviolables", "apps_exists", "apps_is_dir", "make_defs">>

Passes(m, check) ==
    CASE check = "makefile" -> m.makefile
      [] check = "inviolables" -> m.inviolables
      [] check = "apps_exists" -> m.apps # "absent"
      [] check = "apps_is_dir" -> m.apps = "dir"
      [] check = "make_defs" -> m.make_defs

AllPass(m) == \A i \in DOMAIN Checks : Passes(m, Checks[i])

FirstFailing(m) ==
    Checks[CHOOSE i \in DOMAIN Checks :
               /\ ~Passes(m, Checks[i])
               /\ \A j \in 1..(i - 1) : Passes(m, Checks[j])]

MessageOfCheck(self, check) ==
    CASE check = "makefile" -> MakefileMissing(self)
      [] check = "inviolables" -> InviolablesMissing(self)
      [] check = "apps_exists" -> AppsNotFound(self)
      [] check = "apps_is_dir" -> AppsNotADirectory(self)
      [] check = "make_defs" -> MakeDefsMissing(self)

ValidateCalled == buildCall.op = "validate_nuttx_environment"

SetupCalled == buildCall.op = "setup_nuttx"

\* C8: validate_nuttx_environment returns (True, "") exactly when Makefile
\* and INVIOLABLES.md are present and the apps path exists, is a directory
\* and holds Make.defs; otherwise it returns False with the message of the
\* first failing check in that order, and the message for a missing
\* Make.defs names the apps directory.
C8_ValidateReportsFirstFailingCheck ==
    ValidateCalled =>
        /\ buildCall.valid <=> AllPass(markers)
        /\ buildCall.valid => buildCall.message = EmptyMessage
        /\ ~buildCall.valid =>
               /\ buildCall.message # EmptyMessage
               /\ buildCall.message =
                      MessageOfCheck(TheBuilder, FirstFailing(markers))
               /\ FirstFailing(markers) = "make_defs" =>
                      buildCall.message.path = TheBuilder.apps_path

C8_Witness ==
    /\ ValidateCalled
    /\ markers.makefile /\ markers.inviolables
    /\ markers.apps = "file"
    /\ buildCall.message = AppsNotADirectory(TheBuilder)

\* C9: the message returned when only the Makefile is missing differs from
\* the message returned when only INVIOLABLES.md is missing.
C9_MakefileAndMarkerReportedDistinctly ==
    (/\ ValidateCalled
     /\ ~markers.makefile
     /\ markers.inviolables /\ markers.apps = "dir" /\ markers.make_defs)
        => buildCall.message #
               validate_nuttx_environment(
                   TheBuilder,
                   [markers EXCEPT !.makefile = TRUE, !.inviolables = FALSE],
                   rel_apps_path).message

\* C10: setup_nuttx validates first and, when the validation fails, returns
\* nonzero without running the configuration script; when it succeeds the
\* script runs once and its exit code is returned unchanged; an exception
\* gives 1 and setup_nuttx never raises.
C10_SetupReturnsScriptCodeOrOne ==
    SetupCalled =>
        LET valid == AllPass(markers)
        IN  /\ buildCall.result.outcome = "return"
            /\ ~valid => /\ buildCall.result.value # 0
                         /\ buildCall.ran = <<>>
            /\ (valid /\ buildCall.fault = "none") =>
                   /\ buildCall.result.value = buildCall.code
                   /\ buildCall.ran =
                          <<ConfigureSh(RelAppsPath(TheBuilder),
                                        buildCall.board, buildCall.defconfig)>>
            /\ buildCall.fault # "none" => buildCall.result = Return(1)

C10_Witness ==
    /\ SetupCalled
    /\ AllPass(markers)
    /\ buildCall.fault = "none"
    /\ buildCall.code = 2
    /\ buildCall.result = Return(2)
    /\ Len(buildCall.ran) = 1

BuildCalled == buildCall.op = "build"

\* C11: build never raises on a nonzero exit of the build tool and returns
\* the tool's exit code unchanged as an integer, 0 included.
C11_BuildReturnsExitCodeAsInteger ==
    BuildCalled => buildCall.result = PyInt(buildCall.code)

(* -------------------------- Claims on the CLI ------------------------- *)

StartCalled == cliCall.op = "start"

\* The start located a workspace root.
StartLocated == StartCalled /\ cliCall.root # None

\* The start reached builder.setup_nuttx.
SetupReturned == StartLocated /\ cliCall.setup # None

\* The record a start was asked to save.
Supplied ==
    Record(cliCall.root, cliCall.nuttx_dir, cliCall.apps_dir,
           cliCall.build_tool)

RecordAt(dir) == FileAt(dir).kind # "absent"

NonStartCommands == {"build", "clean", "distclean", "info"}

\* A command failed: it exited nonzero or the tool it ran did.
CommandFailed ==
    \/ cliCall.exit # 0
    \/ cliCall.tool # None /\ cliCall.tool # [code |-> 0]

ToolExited(code) == cliCall.tool = [code |-> code]

Str(text) == [str |-> text]

IsStr(value) == "str" \in DOMAIN value

CONFIG_PREFIX == <<"C", "O", "N", "F", "I", "G", "_">>

StartsWith(text, prefix) ==
    Len(text) >= Len(prefix) /\ SubSeq(text, 1, Len(prefix)) = prefix

\* str.removeprefix.
removeprefix(text, prefix) ==
    IF StartsWith(text, prefix)
    THEN SubSeq(text, Len(prefix) + 1, Len(text))
    ELSE text

\* The tristate values "y" and "n" as str_value gives them.
Yes == <<"y">>

No == <<"n">>

\* The Kconfig tree of the workspace, self.syms:
\*   config A bool "A" select B      config S string "S" default "d"
\*   config B bool "B"               config T string default "d"
\*   config H bool default y         config N int "N" default 5
\*                                   config X hex "X" default 0x0
Syms == {<<"A">>, <<"B">>, <<"H">>, <<"S">>, <<"T">>, <<"N">>, <<"X">>}

\* symbol.type
SymType(sym) ==
    CASE sym \in {<<"A">>, <<"B">>, <<"H">>} -> "bool"
      [] sym \in {<<"S">>, <<"T">>} -> "string"
      [] sym = <<"N">> -> "int"
      [] sym = <<"X">> -> "hex"

\* The symbol has a prompt, which in this tree is always visible.
Visible(sym) == sym \notin {<<"H">>, <<"T">>}

DefaultValue(sym) ==
    CASE sym \in {<<"A">>, <<"B">>} -> No
      [] sym = <<"H">> -> Yes
      [] sym \in {<<"S">>, <<"T">>} -> <<"d">>
      [] sym = <<"N">> -> <<"5">>
      [] sym = <<"X">> -> <<"0", "x", "0">>

\* The symbols that select `sym`.
Selectors(sym) == IF sym = <<"B">> THEN {<<"A">>} ELSE {}

\* The value of a symbol before selects: the user value when the symbol is
\* visible, the default otherwise. Every symbol has a user value, the one
\* load_config read from .config.
BaseValue(user, sym) ==
    IF Visible(sym) THEN user[sym] ELSE DefaultValue(sym)

Selected(user, sym) == \E by \in Selectors(sym) : BaseValue(user, by) = Yes

\* symbol.str_value
StrValue(user, sym) ==
    IF SymType(sym) = "bool" /\ Selected(user, sym) THEN Yes
    ELSE BaseValue(user, sym)

\* symbol.assignable: the values a bool can be given now; empty for a symbol
\* that is not bool or not visible.
Assignable(user, sym) ==
    IF SymType(sym) # "bool" \/ ~Visible(sym) THEN {}
    ELSE IF Selected(user, sym) THEN {Yes}
    ELSE {No, Yes}

\* The digit a character stands for; 99 for a character that is no digit.
DigitValue(char) ==
    CASE char = "0" -> 0
      [] char = "1" -> 1
      [] char = "5" -> 5
      [] char = "7" -> 7
      [] OTHER -> 99

IsDigits(text, base) ==
    text # <<>> /\ \A i \in 1..Len(text) : DigitValue(text[i]) < base

Unsigned(text) ==
    IF text # <<>> /\ Head(text) \in {"-", "+"} THEN Tail(text) ELSE text

HasRadixPrefix(text, letters) ==
    Len(text) >= 2 /\ text[1] = "0" /\ text[2] \in letters

\* int(text, base) does not raise ValueError, for base 0, 10 and 16 and text
\* without blanks and underscores.
IntParses(text, base) ==
    LET u == Unsigned(text)
        rest == SubSeq(u, 3, Len(u))
    IN  CASE base = 10 -> IsDigits(u, 10)
          [] base = 16 -> IF HasRadixPrefix(u, {"x", "X"})
                          THEN IsDigits(rest, 16) ELSE IsDigits(u, 16)
          [] base = 0 ->
                 IF HasRadixPrefix(u, {"x", "X"}) THEN IsDigits(rest, 16)
                 ELSE IF HasRadixPrefix(u, {"o", "O"}) THEN IsDigits(rest, 8)
                 ELSE IF HasRadixPrefix(u, {"b", "B"}) THEN IsDigits(rest, 2)
                 ELSE /\ IsDigits(u, 10)
                      /\ Head(u) = "0" => \A i \in 1..Len(u) : u[i] = "0"

\* The form symbol.set_value accepts for the type of the symbol.
ValidForm(sym, value) ==
    CASE SymType(sym) = "bool" -> IsStr(value) /\ value.str \in {No, Yes}
      [] SymType(sym) = "string" -> IsStr(value)
      [] SymType(sym) = "int" -> IsStr(value) /\ IntParses(value.str, 10)
      [] SymType(sym) = "hex" ->
             /\ IsStr(value)
             /\ IntParses(value.str, 16)
             /\ ~StartsWith(value.str, <<"-">>)

\* symbol.set_value(value): True and the user value set when the value has a
\* valid form for the symbol's type, False and nothing set otherwise.
set_value(user, sym, value) ==
    IF ValidForm(sym, value)
    THEN [ret |-> TRUE, user |-> [user EXCEPT ![sym] = value.str]]
    ELSE [ret |-> FALSE, user |-> user]

(* ------------------ config.py: ConfigManager's methods ---------------- *)

Error(type, message) == Raise([type |-> type, message |-> message])

\* What a method did: its outcome and the user values it leaves.
Did(result, user) == [result |-> result, user |-> user]

NotFound == Error("KeyError", "Kconfig option not found")

\* A read that takes the name as it is given.
kconfig_read_unstripped(user, config) ==
    IF config \notin Syms THEN Did(NotFound, user)
    ELSE Did(Return(StrValue(user, config)), user)

kconfig_read(user, config) ==
    LET name == removeprefix(config, CONFIG_PREFIX)
    IN  IF name \notin Syms THEN Did(NotFound, user)
        ELSE Did(Return(StrValue(user, name)), user)

kconfig_enable(user, config) ==
    LET name == removeprefix(config, CONFIG_PREFIX)
        set == set_value(user, name, Str(Yes))
    IN  IF name \notin Syms THEN Did(NotFound, user)
        ELSE IF Assignable(user, name) = {}
        THEN Did(Error("ValueError", "can't be enabled"), user)
        ELSE Did(Return(set.ret), set.user)

\* A disable that hands the value to the symbol before it looks at
\* sym.assignable.
kconfig_disable_setting_first(user, config) ==
    LET name == removeprefix(config, CONFIG_PREFIX)
        set == set_value(user, name, Str(No))
    IN  IF name \notin Syms THEN Did(NotFound, user)
        ELSE IF Assignable(user, name) = {}
        THEN Did(Error("ValueError", "can't be disabled"), set.user)
        ELSE Did(Return(set.ret), set.user)

kconfig_disable(user, config) ==
    LET name == removeprefix(config, CONFIG_PREFIX)
        set == set_value(user, name, Str(No))
    IN  IF name \notin Syms THEN Did(NotFound, user)
        ELSE IF Assignable(user, name) = {}
        THEN Did(Error("ValueError", "can't be disabled"), user)
        ELSE Did(Return(set.ret), set.user)

BadFormat ==
    Error("ValueError",
          "Set value must be string representation of a numerical or hexadecimal value")

WrongNumericType ==
    Error("ValueError", "requires a numerical or hexadecimal input")

IsAssignable == Error("ValueError", "can't be set")

IntGivenHex == Error("ValueError", "requires a int input, not hexadecimal")

HexWithoutPrefix ==
    Error("ValueError", "requires a hexadecimal input (0x<hex>), not int.")

HexPrefix == <<"0", "x">>

kconfig_set_value(user, config, value) ==
    LET name == removeprefix(config, CONFIG_PREFIX)
        set == set_value(user, name, value)
    IN  IF ~IsStr(value)
        THEN Did(Error("AssertionError",
                       "Set value must be string representation of a numerical or hexadecimal value."),
                 user)
        ELSE IF ~IntParses(value.str, 0) THEN Did(BadFormat, user)
        ELSE IF name \notin Syms THEN Did(NotFound, user)
        ELSE IF SymType(name) \notin {"int", "hex"}
        THEN Did(WrongNumericType, user)
        ELSE IF Assignable(user, name) # {} THEN Did(IsAssignable, user)
        ELSE IF SymType(name) = "int" /\ StartsWith(value.str, HexPrefix)
        THEN Did(IntGivenHex, user)
        ELSE IF SymType(name) = "hex" /\ ~StartsWith(value.str, HexPrefix)
        THEN Did(HexWithoutPrefix, user)
        ELSE Did(Return(set.ret), set.user)

WrongStringType == Error("ValueError", "requires a string input")

kconfig_set_str(user, config, value) ==
    LET name == removeprefix(config, CONFIG_PREFIX)
        set == set_value(user, name, value)
    IN  IF name \notin Syms THEN Did(NotFound, user)
        ELSE IF SymType(name) # "string" THEN Did(WrongStringType, user)
        ELSE Did(Return(set.ret), set.user)

(* --------- config.py: environment, construction and the file --------- *)

EnvNames == {"BINDIR", "APPSBINDIR", "APPSDIR", "EXTERNALDIR"}

\* No variable of EnvNames is set.
NoEnv == [v \in EnvNames |-> None]

\* A value BINDIR has in the environment the process was started with.
OuterValue == Str(<<"o">>)

\* The workspace of the ConfigManager and the directories in it.
KWorkspace == DirAt(1)

KNuttx == Join(KWorkspace, NUTTX_DEFAULT_DIR_NAME)

KApps == Join(KWorkspace, NUTTX_APPS_DEFAULT_DIR_NAME)

\* The OS directory of another workspace.
OtherNuttx == Join(DirAt(2), NUTTX_DEFAULT_DIR_NAME)

ConfigDirs == {KNuttx, OtherNuttx}

\* KconfigEnvironmentContext of a parser: the values of the four variables,
\* str(path) each.
KconfigEnvironmentContext(nuttx_path, apps_path, external_path) ==
    [v \in EnvNames |->
        CASE v = "BINDIR" -> Str(nuttx_path)
          [] v = "APPSBINDIR" -> Str(apps_path)
          [] v = "APPSDIR" -> Str(apps_path)
          [] v = "EXTERNALDIR" -> Str(external_path)]

\* set_environment: os.environ[name] = value sets the variable in os.environ
\* and in the environment of the process.
set_environment(env, context) == [py |-> context, c |-> context]

\* restore_environment: os.unsetenv removes the variable from the environment
\* of the process and leaves os.environ as it is.
restore_environment(env) == [py |-> env.py, c |-> NoEnv]

\* The kconfig_chdir decorator around a method that returns, or the
\* decorator's set and the method's own restore when it raises.
kconfig_chdir(env, context) ==
    restore_environment(set_environment(env, context))

\* No .config file.
NoConfig == [kind |-> "absent"]

ConfigFile(values) == [kind |-> "config", values |-> values]

\* The .config written for the values `user`: every symbol with its value.
Effective(user) == [sym \in Syms |-> StrValue(user, sym)]

\* The .config tools/configure.sh leaves: every symbol at its default.
InitialConfig == ConfigFile([sym \in Syms |-> DefaultValue(sym)])

\* An attribute the instance does not have.
NoAttribute == [attribute |-> FALSE]

Constructed(result, instance, env, dir) ==
    [result |-> result, mgr |-> instance, osenv |-> env, procCwd |-> dir]

\* A constructor that looks for .config before anything else.
ConfigManager_config_first(nuttxspace_path, nuttx_dir, apps_dir) ==
    LET nuttx_path == Join(nuttxspace_path, nuttx_dir)
        apps_path ==
            Join(nuttxspace_path,
                 IF apps_dir # None /\ apps_dir # Str(<<>>) THEN apps_dir.str
                 ELSE NUTTX_APPS_DEFAULT_DIR_NAME)
        context ==
            KconfigEnvironmentContext(nuttx_path, apps_path,
                                      Join(nuttx_path, <<"dummy">>))
        restored == restore_environment(set_environment(osenv, context))
    IN  IF disk[nuttx_path] = NoConfig
        THEN Constructed(Error("RuntimeError", ".config file not found"),
                         None, restored, nuttx_path)
        ELSE IF ~(tree.apps /\ apps_path = KApps)
        THEN Constructed(Error("FileNotFoundError", "Apps path found at"),
                         None, osenv, procCwd)
        ELSE Constructed(Return(None),
                         [user |-> disk[nuttx_path].values,
                          context |-> context, _kconf |-> NoAttribute],
                         restored, nuttx_path)

\* ConfigManager(nuttxspace_path, nuttx_dir, apps_dir) in the workspace
\* KWorkspace: the outcome, the instance, the environment and the working
\* directory it leaves. The steps of KconfigParser.__init__ in order: the
\* apps path must exist; set_environment; os.chdir to the OS directory;
\* parse Kconfig; load .config or raise RuntimeError.
ConfigManager(nuttxspace_path, nuttx_dir, apps_dir) ==
    LET nuttx_path == Join(nuttxspace_path, nuttx_dir)
        apps_path ==
            Join(nuttxspace_path,
                 IF apps_dir # None /\ apps_dir # Str(<<>>) THEN apps_dir.str
                 ELSE NUTTX_APPS_DEFAULT_DIR_NAME)
        external_path == Join(nuttx_path, <<"dummy">>)
        context ==
            KconfigEnvironmentContext(nuttx_path, apps_path, external_path)
        set == set_environment(osenv, context)
        restored == restore_environment(set)
    IN  IF ~(tree.apps /\ apps_path = KApps)
        THEN Constructed(Error("FileNotFoundError", "Apps path found at"),
                         None, osenv, procCwd)
        ELSE IF ~tree.nuttx
        THEN Constructed(Error("FileNotFoundError", "chdir"), None, set,
                         procCwd)
        ELSE IF ~tree.kconfig
        THEN Constructed(Error("KconfigError", "Kconfig"), None, restored,
                         nuttx_path)
        ELSE IF disk[nuttx_path] = NoConfig
        THEN Constructed(Error("RuntimeError", ".config file not found"),
                         None, restored, nuttx_path)
        ELSE Constructed(Return(None),
                         [user |-> disk[nuttx_path].values,
                          context |-> context, _kconf |-> NoAttribute],
                         restored, nuttx_path)

\* Kconfig.write_config() with no file name writes .config in the working
\* directory of the process and returns a message.
Saved == Return(<<"Configuration saved to '.config'">>)

NoChange == Return(<<"No change to '.config'">>)

Applied(result, files) == [result |-> result, disk |-> files]

\* kconfig_apply_changes in working directory `dir`; `fails` tells that the
\* file cannot be written.
kconfig_apply_changes(user, dir, fails) ==
    IF fails THEN Applied(Error("OSError", "write"), disk)
    ELSE IF disk[dir] = ConfigFile(Effective(user))
    THEN Applied(NoChange, disk)
    ELSE Applied(Saved, [disk EXCEPT ![dir] = ConfigFile(Effective(user))])

\* The configuration fragment a merge reads.
FragmentPath == <<"/", "f">>

Fragment == [sym \in {<<"S">>} |-> <<"t">>]

\* kconfig_merge_config_file(source_file): the outcome and the user values.
kconfig_merge_config_file(user, source_file) ==
    IF source_file = None \/ source_file = Str(<<>>)
    THEN Did(Error("ValueError", "Source file is required"), user)
    ELSE IF source_file # Str(FragmentPath)
    THEN Did(Error("FileNotFoundError", "load_config"), user)
    ELSE Did(Return(0),
             [sym \in Syms |->
                 IF sym \in DOMAIN Fragment THEN Fragment[sym]
                 ELSE user[sym]])

\* utils.run_curses_command(["make", "menuconfig"], cwd): the CompletedProcess
\* of the tool, or 1 when running it raised.
run_curses_command(code, raised) ==
    IF raised THEN PyInt(1) ELSE CompletedProcess(code)

\* The .config the user saves in the menu: the file with S edited.
MenuEdit(file) == ConfigFile([file.values EXCEPT ![<<"S">>] = <<"m">>])

\* kconfig_menuconfig: the exit code returned and the instance afterwards;
\* self.syms is not assigned.
kconfig_menuconfig(self, code, raised) ==
    LET result == run_curses_command(code, raised)
        returncode == IF "returncode" \in DOMAIN result
                      THEN result.returncode ELSE result.int
    IN  [result |-> Return(returncode),
         mgr |-> IF returncode = 0 THEN [self EXCEPT !._kconf = None]
                 ELSE self]

(* ------------------- config.py: calls and behaviours ------------------ *)

\* The frame of a call of a ConfigManager method.
KcFrame ==
    UNCHANGED <<locVars, envVars, buildVars, cliVars, tree, runVars, nxVars>>

\* A call of a method wrapped by kconfig_chdir on the instance.
Decorated(op, args, did) ==
    /\ mgr # None
    /\ mgr' = [mgr EXCEPT !.user = did.user]
    /\ osenv' = kconfig_chdir(osenv, mgr.context)
    /\ kcCall' = [op |-> op, args |-> args, result |-> did.result]
    /\ UNCHANGED <<procCwd, disk>>
    /\ KcFrame

KconfigRead(config) ==
    Decorated("kconfig_read", <<config>>, kconfig_read(mgr.user, config))

KconfigEnable(config) ==
    Decorated("kconfig_enable", <<config>>, kconfig_enable(mgr.user, config))

KconfigDisable(config) ==
    Decorated("kconfig_disable", <<config>>,
              kconfig_disable(mgr.user, config))

KconfigSetValue(config, value) ==
    Decorated("kconfig_set_value", <<config, value>>,
              kconfig_set_value(mgr.user, config, value))

KconfigSetStr(config, value) ==
    Decorated("kconfig_set_str", <<config, value>>,
              kconfig_set_str(mgr.user, config, value))

KconfigApplyChanges(fails) ==
    /\ mgr # None
    /\ LET did == kconfig_apply_changes(mgr.user, procCwd, fails)
       IN  /\ disk' = did.disk
           /\ kcCall' = [op |-> "kconfig_apply_changes", args |-> <<>>,
                         result |-> did.result]
    /\ osenv' = kconfig_chdir(osenv, mgr.context)
    /\ UNCHANGED <<mgr, procCwd>>
    /\ KcFrame

\* kconfig_merge_config_file is not wrapped: the environment is touched only
\* by the restore of its except clause.
KconfigMergeConfigFile(source_file) ==
    /\ mgr # None
    /\ LET did == kconfig_merge_config_file(mgr.user, source_file)
       IN  /\ mgr' = [mgr EXCEPT !.user = did.user]
           /\ osenv' = IF did.result.outcome = "raise"
                       THEN restore_environment(osenv) ELSE osenv
           /\ kcCall' = [op |-> "kconfig_merge_config_file",
                         args |-> <<source_file>>, result |-> did.result]
    /\ UNCHANGED <<procCwd, disk>>
    /\ KcFrame

\* kconfig_menuconfig is not wrapped either. The tool runs in the OS
\* directory of the instance, where the user may save an edited .config.
KconfigMenuconfig(code, raised, saved) ==
    /\ mgr # None
    /\ LET did == kconfig_menuconfig(mgr, code, raised)
       IN  /\ mgr' = did.mgr
           /\ kcCall' = [op |-> "kconfig_menuconfig", args |-> <<>>,
                         result |-> did.result]
    /\ disk' = IF saved /\ ~raised
               THEN [disk EXCEPT ![KNuttx] = MenuEdit(disk[KNuttx])]
               ELSE disk
    /\ UNCHANGED <<osenv, procCwd>>
    /\ KcFrame

\* ConfigManager(KWorkspace, "nuttx", apps_dir); a failed construction leaves
\* the instance the caller had.
Construct(apps_dir) ==
    LET made == ConfigManager(KWorkspace, NUTTX_DEFAULT_DIR_NAME, apps_dir)
    IN  /\ mgr' = IF made.result.outcome = "return" THEN made.mgr ELSE mgr
        /\ osenv' = made.osenv
        /\ procCwd' = made.procCwd
        /\ kcCall' = [op |-> "ConfigManager", args |-> <<apps_dir>>,
                      result |-> made.result, instance |-> made.mgr]
        /\ UNCHANGED disk
        /\ KcFrame

\* A ConfigManager is constructed for another workspace, with or without a
\* .config there: it sets and restores the variables and leaves the process
\* in that workspace's OS directory.
ConstructElsewhere ==
    /\ procCwd # OtherNuttx
    /\ procCwd' = OtherNuttx
    /\ osenv' = kconfig_chdir(osenv,
                    KconfigEnvironmentContext(OtherNuttx, OtherNuttx,
                                              OtherNuttx))
    /\ kcCall' = NoCall
    /\ UNCHANGED <<mgr, disk>>
    /\ KcFrame

\* The names methods are called with: the symbols, an unknown name, and
\* names with the prefix once and twice.
ConfigNames ==
    Syms \cup {<<"U">>}
    \cup {CONFIG_PREFIX \o n : n \in {<<"A">>, <<"N">>, <<"S">>, <<"U">>}}
    \cup {CONFIG_PREFIX \o CONFIG_PREFIX \o <<"A">>}

\* The values kconfig_set_value is called with: decimal, hexadecimal with
\* "0x" and with "0X", octal, no number, and an int.
NumericValues ==
    {Str(<<"1", "0">>), Str(<<"0", "x", "1", "0">>),
     Str(<<"0", "X", "1", "0">>), Str(<<"0", "o", "7">>), Str(<<"z">>),
     PyInt(10)}

StringValues == {Str(<<"t">>), None}

EnvPresets == {NoEnv, [NoEnv EXCEPT !["BINDIR"] = OuterValue]}

\* The rest of the program at rest.
OthersIdle ==
    /\ entries = {}
    /\ found = NoCall
    /\ EnvIdle
    /\ BuildIdle
    /\ CliIdle
    /\ RunIdle
    /\ NxIdle

CompleteTree == [apps |-> TRUE, nuttx |-> TRUE, kconfig |-> TRUE]

\* The symbols' specification starts with an instance constructed in a
\* configured workspace.
InitKconfig ==
    /\ OthersIdle
    /\ tree = CompleteTree
    /\ disk = [d \in ConfigDirs |-> IF d = KNuttx THEN InitialConfig
                                    ELSE NoConfig]
    /\ procCwd = KNuttx
    /\ \E preset \in EnvPresets :
           LET context == KconfigEnvironmentContext(KNuttx, KApps,
                              Join(KNuttx, <<"dummy">>))
           IN  /\ osenv = kconfig_chdir([py |-> preset, c |-> preset],
                                        context)
               /\ mgr = [user |-> InitialConfig.values, context |-> context,
                         _kconf |-> NoAttribute]
    /\ kcCall = NoCall

NextKconfig ==
    \/ \E config \in ConfigNames : KconfigRead(config)
    \/ \E config \in ConfigNames : KconfigEnable(config)
    \/ \E config \in ConfigNames : KconfigDisable(config)
    \/ \E config \in ConfigNames, value \in NumericValues :
           KconfigSetValue(config, value)
    \/ \E config \in ConfigNames, value \in StringValues :
           KconfigSetStr(config, value)

SpecKconfig == InitKconfig /\ [][NextKconfig]_vars

TreeStates ==
    {CompleteTree, [CompleteTree EXCEPT !.apps = FALSE],
     [CompleteTree EXCEPT !.nuttx = FALSE],
     [CompleteTree EXCEPT !.kconfig = FALSE]}

\* The names of the apps directory a ConfigManager is constructed with.
AppsDirs == {None, Str(NUTTX_APPS_DEFAULT_DIR_NAME), Str(<<"x">>)}

MergeSources == {None, Str(<<>>), Str(FragmentPath), Str(<<"/", "g">>)}

\* The names and values the mutations of the file's specification are called
\* with: a bool symbol that can be assigned, one that cannot and an unknown
\* name; a string symbol and an int symbol; for kconfig_set_value the pairs
\* it rejects, one for each of its checks on a str.
IOBools == {<<"A">>, <<"H">>, <<"U">>}

IOStrings == {<<"S">>, <<"N">>}

IONumericCalls ==
    {<<<<"N">>, Str(<<"z">>)>>, <<<<"U">>, Str(<<"1", "0">>)>>,
     <<<<"S">>, Str(<<"1", "0">>)>>, <<<<"N">>, Str(<<"0", "x", "1", "0">>)>>,
     <<<<"X">>, Str(<<"1", "0">>)>>}

\* The file's specification starts before any construction, in a workspace
\* that is configured or lacks .config, the apps directory, the OS directory
\* or a Kconfig that parses.
InitKconfigIO ==
    /\ OthersIdle
    /\ tree \in TreeStates
    /\ \E file \in {NoConfig, InitialConfig} :
           disk = [d \in ConfigDirs |-> IF d = KNuttx THEN file ELSE NoConfig]
    /\ procCwd = KWorkspace
    /\ \E preset \in EnvPresets : osenv = [py |-> preset, c |-> preset]
    /\ mgr = None
    /\ kcCall = NoCall

NextKconfigIO ==
    \/ \E apps_dir \in AppsDirs : Construct(apps_dir)
    \/ ConstructElsewhere
    \/ \E fails \in BOOLEAN : KconfigApplyChanges(fails)
    \/ \E source_file \in MergeSources : KconfigMergeConfigFile(source_file)
    \/ \E code \in {0, 1}, raised \in BOOLEAN, saved \in BOOLEAN :
           KconfigMenuconfig(code, raised, saved)
    \/ KconfigRead(<<"S">>)
    \/ \E config \in IOBools : KconfigEnable(config)
    \/ \E config \in IOBools : KconfigDisable(config)
    \/ \E config \in IOStrings : KconfigSetStr(config, Str(<<"t">>))
    \/ \E call \in IONumericCalls : KconfigSetValue(call[1], call[2])

SpecKconfigIO == InitKconfigIO /\ [][NextKconfigIO]_vars

(* ------------------------ config.py: the claims ----------------------- *)

\* The last call was a call of `op`.
KcCalled(op) == kcCall # NoCall /\ kcCall.op = op

KcReturned == kcCall.result.outcome = "return"

KcRaised(type) ==
    kcCall.result.outcome = "raise" /\ kcCall.result.exc.type = type

\* C13: a construction and every read, enable, disable, set, apply and merge,
\* returning or raising, leaves each of BINDIR, APPSBINDIR, APPSDIR and
\* EXTERNALDIR with the value or absence it had before, in os.environ and in
\* the environment of the process.
C13_EnvironmentAsBefore == [][osenv' = osenv]_vars

\* The apps directory the last construction was given does not exist.
AppsMissing ==
    ~tree.apps \/ kcCall.args[1] = Str(<<"x">>)

ConfigMissing == disk[KNuttx] = NoConfig

\* The last construction raised `type` and made no instance.
FailedWith(type) == KcRaised(type) /\ kcCall.instance = None

Stripped(config) ==
    IF Len(config) >= 7 /\ SubSeq(config, 1, 7) = CONFIG_PREFIX
    THEN SubSeq(config, 8, Len(config))
    ELSE config

\* The canonical text of the value symbol `sym` has under the user values
\* `user`: "y" or "n" for a bool, the literal text otherwise.
Canonical(user, sym) ==
    IF SymType(sym) = "bool"
    THEN IF StrValue(user, sym) = Yes THEN Yes ELSE No
    ELSE StrValue(user, sym)

\* C15: a read strips one leading "CONFIG_", raises KeyError when the
\* stripped name is no symbol, returns the symbol's current value as text
\* otherwise, and leaves the symbols' values and the .config files as they
\* were.
C15_ReadReturnsValueAndChangesNothing ==
    [][kcCall'.op = "kconfig_read"
          => LET name == Stripped(kcCall'.args[1])
             IN  /\ IF name \notin Syms THEN kcCall'.result = NotFound
                    ELSE kcCall'.result = Return(Canonical(mgr.user, name))
                 /\ mgr'.user = mgr.user
                 /\ disk' = disk]_vars

C15_Witness ==
    /\ KcCalled("kconfig_read")
    /\ kcCall.args = <<CONFIG_PREFIX \o <<"A">>>>
    /\ kcCall.result = Return(Yes)

\* The symbol the last call named.
CalledSym == Stripped(kcCall.args[1])

\* The last call was an enable or a disable, and `target` is the value it
\* was to give the symbol.
Switched(target) ==
    \/ KcCalled("kconfig_enable") /\ target = Yes
    \/ KcCalled("kconfig_disable") /\ target = No

\* C16: an enable or disable raises KeyError for an unknown name and
\* ValueError for a symbol that cannot be assigned; otherwise it returns
\* whether the symbol took the value, and a returned True means that the
\* symbol now reads "y" after an enable and "n" after a disable.
C16_EnableDisableTakeEffect ==
    \A target \in {Yes, No} :
        Switched(target)
            => IF CalledSym \notin Syms THEN kcCall.result = NotFound
               ELSE IF SymType(CalledSym) # "bool" \/ ~Visible(CalledSym)
               THEN KcRaised("ValueError")
               ELSE /\ KcReturned
                    /\ kcCall.result.value
                           = (StrValue(mgr.user, CalledSym) = target)

\* The checks of a numeric set on symbol `sym` with the text `text`, in the
\* order of the statement, and the error of the first that fails; Return(0)
\* when all four pass.
FirstNumericRejection(user, sym, text) ==
    IF SymType(sym) \notin {"int", "hex"} THEN WrongNumericType
    ELSE IF Assignable(user, sym) # {} THEN IsAssignable
    ELSE IF SymType(sym) = "int" /\ StartsWith(text, HexPrefix)
    THEN IntGivenHex
    ELSE IF SymType(sym) = "hex" /\ ~StartsWith(text, HexPrefix)
    THEN HexWithoutPrefix
    ELSE Return(0)

\* C17: a numeric set of a known symbol with a text that passes the format
\* check raises the error of the first failing check among wrong type,
\* assignable, hex prefix on an int, no hex prefix on a hex, and then changes
\* no value; when all four pass the value is applied and the symbol reads
\* as that value.
C17_NumericSetAppliesAfterFourChecks ==
    [][(/\ kcCall'.op = "kconfig_set_value"
        /\ Stripped(kcCall'.args[1]) \in Syms
        /\ IsStr(kcCall'.args[2])
        /\ IntParses(kcCall'.args[2].str, 0))
          => LET sym == Stripped(kcCall'.args[1])
                 text == kcCall'.args[2].str
                 first == FirstNumericRejection(mgr.user, sym, text)
             IN  IF first.outcome = "raise"
                 THEN kcCall'.result = first /\ mgr'.user = mgr.user
                 ELSE /\ kcCall'.result.outcome = "return"
                      /\ StrValue(mgr'.user, sym) = text]_vars

\* The text is an integer written in decimal.
Decimal(text) == IsDigits(Unsigned(text), 10)

\* The text is an integer written in hexadecimal after a prefix "0" and one
\* of `letters`.
Hexadecimal(text, letters) ==
    LET u == Unsigned(text)
    IN  HasRadixPrefix(u, letters) /\ IsDigits(SubSeq(u, 3, Len(u)), 16)

\* The notations a numeric set accepts for the name `config`: decimal, hex
\* with "0x", and hex with "0X" unless the symbol is an int.
AcceptedNotation(config, text) ==
    \/ Decimal(text)
    \/ Hexadecimal(text, {"x"})
    \/ /\ Hexadecimal(text, {"X"})
       /\ ~(Stripped(config) \in Syms /\ SymType(Stripped(config)) = "int")

\* C18: a numeric set with a value that is no string raises, and one with a
\* string in no accepted notation raises the bad-format ValueError, for a
\* known and for an unknown name alike.
C18_OtherNotationsAreBadFormat ==
    KcCalled("kconfig_set_value")
        => LET config == kcCall.args[1]
               value == kcCall.args[2]
           IN  IF ~IsStr(value)
               THEN KcRaised("AssertionError") \/ KcRaised("ValueError")
               ELSE ~AcceptedNotation(config, value.str)
                        => kcCall.result = BadFormat

\* C19: a string set with a text raises KeyError for an unknown name and the
\* wrong-type ValueError for a symbol that is no string; for a string symbol
\* it returns and the symbol then reads as the text.
C19_StringSetApplies ==
    (KcCalled("kconfig_set_str") /\ IsStr(kcCall.args[2]))
        => IF CalledSym \notin Syms THEN kcCall.result = NotFound
           ELSE IF SymType(CalledSym) # "string"
           THEN kcCall.result = WrongStringType
           ELSE /\ KcReturned
                /\ StrValue(mgr.user, CalledSym) = kcCall.args[2].str

\* The .config a fresh ConfigManager of the workspace would load holds the
\* values of the instance.
Persisted(files, user) == files[KNuttx] = ConfigFile(Effective(user))

\* C20: only kconfig_apply_changes changes a .config file; an apply that
\* returns writes the values of the instance, pending mutations included, to
\* the .config of the instance's workspace, where a freshly constructed
\* ConfigManager reads them, and changes no other file.
C20_OnlyApplyPersists ==
    [][IF /\ kcCall'.op = "kconfig_apply_changes"
          /\ kcCall'.result.outcome = "return"
       THEN /\ Persisted(disk', mgr.user)
            /\ \A dir \in ConfigDirs \ {KNuttx} : disk'[dir] = disk[dir]
       ELSE disk' = disk]_vars

SourceRequired == Error("ValueError", "Source file is required")

\* The values a ConfigManager constructed now for the workspace would read.
FreshValues(files) == Effective(files[KNuttx].values)

\* C21: a merge with no or an empty path raises "Source file is required"
\* and changes no value and no file; a merge that returns gives the symbols
\* of the source their values from it, keeps every other value and writes no
\* file; and after an apply that follows it and returns, a freshly
\* constructed ConfigManager of the workspace reads the merged values.
C21_MergeIsAdditiveAndPersistsOnApply ==
    [][/\ kcCall'.op = "kconfig_merge_config_file"
          => /\ disk' = disk
             /\ kcCall'.args[1] \in {None, Str(<<>>)}
                    => kcCall'.result = SourceRequired /\ mgr' = mgr
             /\ kcCall'.result.outcome = "return"
                    => \A sym \in Syms :
                           mgr'.user[sym] =
                               IF sym \in DOMAIN Fragment THEN Fragment[sym]
                               ELSE mgr.user[sym]
       /\ (/\ KcCalled("kconfig_merge_config_file")
           /\ KcReturned
           /\ kcCall'.op = "kconfig_apply_changes"
           /\ kcCall'.result.outcome = "return")
          => /\ disk'[KNuttx] # NoConfig
             /\ \A sym \in DOMAIN Fragment :
                    FreshValues(disk')[sym] = Fragment[sym]]_vars

\* C22: a read that follows a kconfig_menuconfig that returned 0 is not
\* answered from the values the instance held before the menu: it returns
\* what the .config of the workspace now gives; and a kconfig_menuconfig
\* that returns nonzero leaves the values of the instance as they were.
C22_MenuInvalidatesDatabase ==
    [][/\ (/\ KcCalled("kconfig_menuconfig")
           /\ kcCall.result = Return(0)
           /\ kcCall'.op = "kconfig_read"
           /\ kcCall'.result.outcome = "return")
          => kcCall'.result.value
                 = FreshValues(disk)[Stripped(kcCall'.args[1])]
       /\ (kcCall'.op = "kconfig_menuconfig" /\ kcCall'.result # Return(0))
          => mgr'.user = mgr.user]_vars

(* ------------------ utils.py: run_make_command ------------------------ *)

\* The bytes a pipe holds before a write to it blocks.
PipeCap == 4

\* The writes a child makes at most.
MaxWrites == 2

Streams == <<"stdout", "stderr">>

StreamNames == {"stdout", "stderr"}

Newline == "\n"

\* The texts a child writes with one write: a line, a line without its
\* newline, two lines, and a line longer than a pipe.
WriteTexts ==
    {<<"a", Newline>>, <<"b">>, <<"a", Newline, "b", Newline>>,
     <<"c", "c", "c", "c", Newline>>}

\* The index of the first newline of the text, 0 when it has none.
RECURSIVE FirstNewline(_, _)
FirstNewline(text, i) ==
    IF i > Len(text) THEN 0
    ELSE IF text[i] = Newline THEN i
    ELSE FirstNewline(text, i + 1)

\* str.rstrip(): the text without the whitespace at its end.
RECURSIVE rstrip(_)
rstrip(text) ==
    IF text # <<>> /\ text[Len(text)] \in {Newline, " "}
    THEN rstrip(SubSeq(text, 1, Len(text) - 1))
    ELSE text

\* str.splitlines(): the lines of the text, a last line without newline
\* included.
RECURSIVE splitlines(_)
splitlines(text) ==
    LET i == FirstNewline(text, 1)
    IN  IF text = <<>> THEN <<>>
        ELSE IF i = 0 THEN <<text>>
        ELSE <<SubSeq(text, 1, i - 1)>>
                 \o splitlines(SubSeq(text, i + 1, Len(text)))

\* "\n".join(lines)
RECURSIVE JoinLines(_)
JoinLines(lines) ==
    IF lines = <<>> THEN <<>>
    ELSE IF Len(lines) = 1 THEN lines[1]
    ELSE lines[1] \o <<Newline>> \o JoinLines(Tail(lines))

NoText == [s \in StreamNames |-> <<>>]

\* subprocess.Popen(cmd, stdout=PIPE, stderr=PIPE): a child that will make
\* the writes of `script` and exit with `returncode`.
Popen(script, returncode) ==
    [script |-> script, returncode |-> returncode, exited |-> FALSE,
     pipe |-> NoText, written |-> NoText]

\* The state of run_make_command after Popen: at the top of the loop, with
\* nothing read.
Running ==
    [op |-> "run_make_command", pc |-> "poll", reads |-> <<>>,
     buffer |-> NoText, stdout_lines |-> <<>>, stderr_lines |-> <<>>]

\* The lines read so far from stream `s`.
LinesOf(r, s) == IF s = "stdout" THEN r.stdout_lines ELSE r.stderr_lines

\* `r` with `lines` appended to the lines of stream `s`.
Extended(r, s, lines) ==
    IF s = "stdout" THEN [r EXCEPT !.stdout_lines = @ \o lines]
    ELSE [r EXCEPT !.stderr_lines = @ \o lines]

RunFrame == UNCHANGED <<locVars, envVars, buildVars, cliVars, kcVars, nxVars>>

\* The child writes: as much of its next write as the pipe has room for; the
\* write returns when all of it is in the pipe.
ChildWrite ==
    /\ runner # NoCall
    /\ ~process.exited
    /\ process.script # <<>>
    /\ LET w == Head(process.script)
           room == PipeCap - Len(process.pipe[w.stream])
           k == IF Len(w.text) < room THEN Len(w.text) ELSE room
           moved == SubSeq(w.text, 1, k)
           left == SubSeq(w.text, k + 1, Len(w.text))
       IN  /\ k > 0
           /\ process' =
                  [process EXCEPT
                      !.pipe[w.stream] = @ \o moved,
                      !.written[w.stream] = @ \o moved,
                      !.script = IF left = <<>> THEN Tail(@)
                                 ELSE <<[w EXCEPT !.text = left]>> \o Tail(@)]
    /\ UNCHANGED runner
    /\ RunFrame

\* The child exits after its last write and its ends of the pipes close.
ChildExit ==
    /\ runner # NoCall
    /\ ~process.exited
    /\ process.script = <<>>
    /\ process' = [process EXCEPT !.exited = TRUE]
    /\ UNCHANGED runner
    /\ RunFrame

\* process.poll() at the top of the loop.
Poll ==
    /\ runner # NoCall
    /\ runner.pc = "poll"
    /\ runner' = [runner EXCEPT
                     !.pc = IF process.exited THEN "communicate"
                            ELSE "select"]
    /\ UNCHANGED process
    /\ RunFrame

\* The file descriptor of the stream has data or is at end of file.
Readable(s) == process.pipe[s] # <<>> \/ process.exited

\* select.select([stdout, stderr], [], [], 0.1): the readable streams, none
\* after the timeout.
Select ==
    /\ runner # NoCall
    /\ runner.pc = "select"
    /\ LET reads == SelectSeq(Streams, Readable)
       IN  runner' = [runner EXCEPT
                         !.reads = reads,
                         !.pc = IF reads = <<>> THEN "poll" ELSE "readline"]
    /\ UNCHANGED process
    /\ RunFrame

\* The end of one pass of `for stream in reads`.
Next_stream(r) ==
    [r EXCEPT !.reads = Tail(@),
              !.pc = IF Tail(r.reads) = <<>> THEN "poll" ELSE "readline"]

\* stream.readline() on the buffered text stream and the lines that follow
\* it: a line of the buffer when it holds one; else the content of the pipe
\* is taken into the buffer and the call goes on; at end of file the rest of
\* the buffer. With no newline in the buffer, an empty pipe and a running
\* child the call waits.
Readline ==
    /\ runner # NoCall
    /\ runner.pc = "readline"
    /\ LET s == Head(runner.reads)
           buf == runner.buffer[s]
           i == FirstNewline(buf, 1)
       IN  IF i > 0
           THEN /\ runner' =
                       Next_stream(
                           Extended([runner EXCEPT
                                        !.buffer[s] =
                                            SubSeq(buf, i + 1, Len(buf))],
                                    s, <<rstrip(SubSeq(buf, 1, i))>>))
                /\ UNCHANGED process
           ELSE IF process.pipe[s] # <<>>
           THEN /\ runner' = [runner EXCEPT
                                 !.buffer[s] = buf \o process.pipe[s]]
                /\ process' = [process EXCEPT !.pipe[s] = <<>>]
           ELSE /\ process.exited
                /\ runner' =
                       Next_stream(
                           Extended([runner EXCEPT !.buffer[s] = <<>>], s,
                                    IF buf = <<>> THEN <<>>
                                    ELSE <<rstrip(buf)>>))
                /\ UNCHANGED process
    /\ RunFrame

\* process.communicate() after the loop reads what is left in the two
\* pipes from their file descriptors; the lines go to stdout_lines and
\* stderr_lines. The function builds a CompletedProcess and returns its
\* returncode.
Communicate ==
    /\ runner # NoCall
    /\ runner.pc = "communicate"
    /\ LET remaining_stdout == process.pipe["stdout"]
           remaining_stderr == process.pipe["stderr"]
           read == Extended(Extended(runner, "stdout",
                                     splitlines(remaining_stdout)),
                            "stderr", splitlines(remaining_stderr))
           result == [returncode |-> process.returncode,
                      stdout |-> JoinLines(read.stdout_lines),
                      stderr |-> JoinLines(read.stderr_lines)]
       IN  runner' = [read EXCEPT !.pc = "done"]
                         @@ [completed |-> result,
                             result |-> Return(PyInt(result.returncode))]
    /\ process' = [process EXCEPT !.pipe = NoText]
    /\ RunFrame

\* The writes of a child: up to MaxWrites of them.
Writes == [stream : StreamNames, text : WriteTexts]

Scripts == UNION {[1..n -> Writes] : n \in 0..MaxWrites}

InitRun ==
    /\ entries = {}
    /\ found = NoCall
    /\ EnvIdle
    /\ BuildIdle
    /\ CliIdle
    /\ KcIdle
    /\ NxIdle
    /\ \E script \in Scripts, returncode \in {0, 2} :
           process = Popen(script, returncode)
    /\ runner = Running

NextRun ==
    \/ ChildWrite
    \/ ChildExit
    \/ Poll
    \/ Select
    \/ Readline
    \/ Communicate

SpecRun == InitRun /\ [][NextRun]_vars

\* The child and the runner are processes the system schedules: each takes
\* a step it can take.
SpecRunFair ==
    /\ SpecRun
    /\ WF_vars(ChildWrite \/ ChildExit)
    /\ WF_vars(Poll \/ Select \/ Readline \/ Communicate)

(* ------------------------ utils.py: the claims ------------------------ *)

Returned == runner # NoCall /\ runner.pc = "done"

\* The lines the child wrote on stream `s`.
WrittenLines(s) == splitlines(process.written[s])

\* C23: run_make_command returns the exit code of the child together with
\* the text of each stream, and the lines captured of each stream are the
\* lines the child wrote on it, in order, none lost and none twice.
C23_ReturnsCodeAndEveryLine ==
    Returned
        => /\ runner.stdout_lines = WrittenLines("stdout")
           /\ runner.stderr_lines = WrittenLines("stderr")
           /\ runner.result =
                  Return([returncode |-> process.returncode,
                          stdout |-> JoinLines(WrittenLines("stdout")),
                          stderr |-> JoinLines(WrittenLines("stderr"))])

\* C24: run_make_command returns, whatever the child writes to its two
\* streams.
C24_RunnerReturns == <>Returned

(* --------------------------- nuttx.py --------------------------------- *)

\* The set calls made on one explorer at most.
MaxSetCalls == 2

\* The rank of a character in the order Python compares strings by.
CharRank(char) ==
    CASE char = "." -> 1
      [] char = "a" -> 2
      [] char = "b" -> 3
      [] char = "m" -> 4
      [] char = "n" -> 5
      [] char = "s" -> 6
      [] char = "t" -> 7
      [] char = "x" -> 8
      [] char = "y" -> 9

\* left <= right for two str.
RECURSIVE StrLeq(_, _)
StrLeq(left, right) ==
    IF left = <<>> THEN TRUE
    ELSE IF right = <<>> THEN FALSE
    ELSE IF Head(left) = Head(right) THEN StrLeq(Tail(left), Tail(right))
    ELSE CharRank(Head(left)) < CharRank(Head(right))

\* The index of the last dot of a name, 0 when it has none.
RECURSIVE LastDot(_, _)
LastDot(name, i) ==
    IF i = 0 THEN 0
    ELSE IF name[i] = "." THEN i
    ELSE LastDot(name, i - 1)

\* PurePath.stem of a path whose last component is `name`: the name without
\* its suffix, which starts at the last dot when that dot is neither the
\* first nor the last character.
PathStem(name) ==
    LET i == LastDot(name, Len(name))
    IN  IF 1 < i /\ i < Len(name) THEN SubSeq(name, 1, i - 1) ELSE name

\* The sequences list.sort(key=lambda x: x.name) can leave for the elements
\* `items`: every order of them in which the names do not decrease.
Sorted(items) ==
    {seq \in [1..Cardinality(items) -> items] :
        /\ \A i, j \in DOMAIN seq : i # j => seq[i] # seq[j]
        /\ \A i, j \in DOMAIN seq : i < j => StrLeq(seq[i].name, seq[j].name)}

\* A board directory without configs/.
NoConfigs == [configs |-> FALSE]

Configs(children) == [configs |-> TRUE, children |-> children]

\* Defconfig(path) for the child `child` of configs/.
Defconfig(child) == [path |-> child, name |-> PathStem(child)]

\* The children of the configs/ directory of the board at `path`, which
\* path.glob("configs/*") yields.
ConfigsGlob(dirs, path) ==
    IF path \in DOMAIN dirs /\ dirs[path].configs THEN dirs[path].children
    ELSE {}

\* The Board objects Board(path) can make for the board directory
\* boards/<path[1]>/<path[2]>/<path[3]>.
Board(dirs, path) ==
    {[path |-> path,
      name |-> PathStem(path[3]),
      arch |-> PathStem(path[1]),
      soc |-> PathStem(path[2]),
      defconfigs |-> defconfigs] :
        defconfigs \in Sorted({Defconfig(m) : m \in ConfigsGlob(dirs, path)})}

\* Board.get_defconfig(name): the first defconfig of that name, or None.
get_defconfig(board, name) ==
    LET hits == {i \in DOMAIN board.defconfigs :
                    board.defconfigs[i].name = name}
    IN  IF hits = {} THEN None
        ELSE board.defconfigs[CHOOSE i \in hits : \A j \in hits : i <= j]

\* The pattern component "*".
Star == [star |-> TRUE]

\* NuttxBoardExplorer(nuttx_path): no filter attribute is set.
NuttxBoardExplorer == [filter |-> NoAttribute]

set_arch(self, arch) == [self EXCEPT !.filter = <<Str(arch), Star, Star>>]

set_soc(self, soc) == [self EXCEPT !.filter = <<Star, Str(soc), Star>>]

set_board(self, board) == [self EXCEPT !.filter = <<Star, Star, Str(board)>>]

\* The board directory `path` matches the pattern `filter` + "/configs".
GlobMatches(dirs, filter, path) ==
    /\ dirs[path].configs
    /\ \A i \in 1..3 : filter[i] = Star \/ filter[i] = Str(path[i])

\* The lists _search_board can return, or the AttributeError of reading
\* self.filter when no set call was made.
search_board(self, dirs) ==
    IF self.filter = NoAttribute
    THEN {Error("AttributeError", "filter")}
    ELSE LET matches == {p \in DOMAIN dirs : GlobMatches(dirs, self.filter, p)}
             made == UNION {Board(dirs, p) : p \in matches}
             choices == {choice \in [matches -> made] :
                            \A p \in matches : choice[p] \in Board(dirs, p)}
         IN  UNION {{Return(list) :
                        list \in Sorted({choice[p] : p \in matches})} :
                    choice \in choices}

NxFrame == UNCHANGED <<locVars, envVars, buildVars, cliVars, kcVars, runVars>>

\* The board directories of the tree and the states of their configs/.
BoardPaths ==
    {<<<<"x">>, <<"s">>, <<"b">>>>, <<<<"x">>, <<"t">>, <<"a">>>>,
     <<<<"y">>, <<"s">>, <<"a", ".", "b">>>>}

ConfigsStates ==
    {NoConfigs, Configs({<<"n">>}),
     Configs({<<"m", ".", "x">>, <<"m", ".", "y">>})}

\* The file system under boards/ changes.
Mkdir(path, state) ==
    /\ boardDirs[path] # state
    /\ boardDirs' = [boardDirs EXCEPT ![path] = state]
    /\ UNCHANGED <<explorer, setCalls, nxCall>>
    /\ NxFrame

SetFilter(op, value, self) ==
    /\ Len(setCalls) < MaxSetCalls
    /\ explorer' = self
    /\ setCalls' = Append(setCalls, [op |-> op, value |-> value])
    /\ nxCall' = [op |-> op, value |-> value]
    /\ UNCHANGED boardDirs
    /\ NxFrame

SetArch(arch) == SetFilter("set_arch", arch, set_arch(explorer, arch))

SetSoc(soc) == SetFilter("set_soc", soc, set_soc(explorer, soc))

SetBoard(board) == SetFilter("set_board", board, set_board(explorer, board))

\* explorer.boards
BoardsProperty ==
    /\ \E result \in search_board(explorer, boardDirs) :
           nxCall' = [op |-> "boards", result |-> result]
    /\ UNCHANGED <<boardDirs, explorer, setCalls>>
    /\ NxFrame

\* Board(path).get_defconfig(name)
BoardGetDefconfig(path, name) ==
    /\ \E board \in Board(boardDirs, path) :
           nxCall' = [op |-> "get_defconfig", path |-> path, name |-> name,
                      board |-> board,
                      result |-> get_defconfig(board, name)]
    /\ UNCHANGED <<boardDirs, explorer, setCalls>>
    /\ NxFrame

DefconfigNames == {<<"n">>, <<"m">>, <<"m", ".", "x">>}

InitNx ==
    /\ entries = {}
    /\ found = NoCall
    /\ EnvIdle
    /\ BuildIdle
    /\ CliIdle
    /\ KcIdle
    /\ RunIdle
    /\ boardDirs \in [BoardPaths -> ConfigsStates]
    /\ explorer = NuttxBoardExplorer
    /\ setCalls = <<>>
    /\ nxCall = NoCall

NextNx ==
    \/ \E path \in BoardPaths, state \in ConfigsStates : Mkdir(path, state)
    \/ SetArch(<<"x">>)
    \/ SetSoc(<<"s">>)
    \/ SetBoard(<<"a">>)
    \/ BoardsProperty
    \/ \E path \in BoardPaths, name \in DefconfigNames :
           BoardGetDefconfig(path, name)

SpecNx == InitNx /\ [][NextNx]_vars

(* ------------------------ claims on nuttx.py -------------------------- *)

\* The elements of a list.
Elements(list) == {list[i] : i \in DOMAIN list}

\* The names of a list of boards or defconfigs do not decrease.
SortedByName(list) ==
    \A i, j \in DOMAIN list : i < j => StrLeq(list[i].name, list[j].name)

\* The step is a call of the operation `op` of nuttx.py.
NxCalls(op) == nxCall' # nxCall /\ nxCall'.op = op

\* C25: a Board built from boards/<arch>/<soc>/<board> has name, soc and
\* arch equal to the last, second-to-last and third-to-last components of
\* its path, its defconfigs hold one entry per child of configs/ sorted by
\* name, and get_defconfig(name) returns an entry of that name, or None when
\* no entry has it.
C25_BoardFollowsItsPath ==
    [][NxCalls("get_defconfig") =>
        LET call == nxCall'
            board == call.board
            children == ConfigsGlob(boardDirs, call.path)
        IN  /\ board.name = call.path[3]
            /\ board.soc = call.path[2]
            /\ board.arch = call.path[1]
            /\ Len(board.defconfigs) = Cardinality(children)
            /\ {d.path : d \in Elements(board.defconfigs)} = children
            /\ SortedByName(board.defconfigs)
            /\ IF \E d \in Elements(board.defconfigs) : d.name = call.name
               THEN /\ call.result \in Elements(board.defconfigs)
                    /\ call.result.name = call.name
               ELSE call.result = None]_vars

\* The board directory `path` matches what the set call `call` supplied.
FilterAdmits(call, path) ==
    CASE call.op = "set_arch" -> path[1] = call.value
      [] call.op = "set_soc" -> path[2] = call.value
      [] call.op = "set_board" -> path[3] = call.value

\* C26: after any sequence of set_arch, set_soc and set_board calls, the
\* empty one included, boards returns exactly the boards that have a configs
\* directory and match every filter supplied, sorted by board name, as the
\* file system is at the access.
C26_BoardsMatchEveryFilter ==
    [][NxCalls("boards") =>
        LET result == nxCall'.result
        IN  /\ "value" \in DOMAIN result
            /\ {b.path : b \in Elements(result.value)}
                   = {p \in BoardPaths :
                         /\ boardDirs[p].configs
                         /\ \A i \in DOMAIN setCalls : FilterAdmits(setCalls[i], p)}
            /\ SortedByName(result.value)]_vars

(* ------------------- cli.py: the steps of a start --------------------- *)

\* A start command is between its prepare_env and its exit.
StartRunning ==
    "pc" \in DOMAIN cliCall /\ cliCall.pc \in {"prepared", "setup_returned"}

\* The call record of a start at the position `pc`.
StartAt(pc, nuttx_dir, apps_dir, build_tool, root, setup, ran, exit) ==
    [op |-> "start", pc |-> pc, nuttx_dir |-> nuttx_dir,
     apps_dir |-> apps_dir, build_tool |-> build_tool, root |-> root,
     setup |-> setup, ran |-> ran, exit |-> exit]

\* start up to the return of prepare_env(nuttx_dir, apps_dir, True,
\* build_tool): the workspace is located and the record is saved. An
\* exception of find_nuttx_root or save_ntx_env ends the process with
\* status 1.
StartPrepareEnv(nuttx_dir, apps_dir, build_tool) ==
    LET loc == find_nuttx_root(cwd, nuttx_dir, apps_dir)
        root == loc.value
        saved == save_ntx_env(root, nuttx_dir, apps_dir, build_tool)
    IN  /\ ~StartRunning
        /\ IF loc.outcome = "raise"
           THEN /\ cliCall' = StartAt("exited", nuttx_dir, apps_dir,
                                      build_tool, None, None, <<>>, 1)
                /\ UNCHANGED ntxenv
           ELSE IF saved.result.outcome = "raise"
           THEN /\ cliCall' = StartAt("exited", nuttx_dir, apps_dir,
                                      build_tool, root, None, <<>>, 1)
                /\ UNCHANGED ntxenv
           ELSE /\ cliCall' = StartAt("prepared", nuttx_dir, apps_dir,
                                      build_tool, root, None, <<>>, None)
                /\ ntxenv' = WithFile(root, saved.file)
        /\ CliFrame

\* builder.setup_nuttx(board, defconfig, extra_args) of the start returns.
StartSetup(board, defconfig, fault, code) ==
    LET builder == NuttXBuilder(cliCall.root, cliCall.nuttx_dir,
                                cliCall.apps_dir)
        setup == setup_nuttx(builder, MarkersOf(builder, markers), None,
                             board, defconfig, fault, code)
    IN  /\ StartRunning
        /\ cliCall.pc = "prepared"
        /\ cliCall' = [cliCall EXCEPT !.pc = "setup_returned",
                                      !.setup = setup.result,
                                      !.ran = setup.ran]
        /\ UNCHANGED ntxenv
        /\ CliFrame

\* The rest of start: the record is cleared when the setup did not return
\* 0, and the process exits with the setup's result.
StartExit ==
    /\ StartRunning
    /\ cliCall.pc = "setup_returned"
    /\ cliCall' = [cliCall EXCEPT !.pc = "exited",
                                  !.exit = cliCall.setup.value]
    /\ ntxenv' = IF cliCall.setup.value # 0
                 THEN WithFile(cliCall.root, clear_ntx_env(cliCall.root))
                 ELSE ntxenv
    /\ CliFrame

NextStart ==
    \/ \E nuttx_dir \in EntryNames, apps_dir \in EntryNames,
          build_tool \in BuildTools :
           StartPrepareEnv(nuttx_dir, apps_dir, build_tool)
    \/ \E board \in Boards, fault \in CliFaults, code \in ExitCodes :
           StartSetup(board, "nsh", fault, code)
    \/ StartExit
    \/ \E code \in ExitCodes : ~StartRunning /\ Distclean(code)
    \/ \E dir \in Dirs : ~StartRunning /\ Chdir(dir)
    \/ \E m \in CliMarkerStates : TouchMarkers(m)

SpecStart == InitCli /\ [][NextStart]_vars

\* C27: in no state during a start command is the record file present at
\* the workspace root while the setup of that start has not returned 0.
C27_NoRecordBeforeSetupSucceeded ==
    (StartRunning /\ cliCall.setup # Return(0)) => ~RecordAt(cliCall.root)

(* ---------------- config.py: claims on rejected mutations -------------- *)

Mutations ==
    {"kconfig_enable", "kconfig_disable", "kconfig_set_value",
     "kconfig_set_str", "kconfig_merge_config_file"}

\* The step is a call of a mutation that raises.
MutationRaises ==
    /\ kcCall'.op \in Mutations
    /\ kcCall'.result.outcome = "raise"

\* C28: whenever Enable, Disable, SetNumeric, SetString or MergeConfigFile
\* raises, the value of every symbol in memory and the configuration files
\* on disk are the same as before the call: the supplied value is stored
\* nowhere, in no form.
C28_RejectedMutationChangesNothing ==
    [][MutationRaises =>
        /\ mgr'.user = mgr.user
        /\ Effective(mgr'.user) = Effective(mgr.user)
        /\ disk' = disk]_vars

\* C28 witness: a hexadecimal value was rejected for the int symbol after a
\* merge had been accepted; the merged value is in memory and the file is
\* as it was at the start.
C28_Witness ==
    /\ KcCalled("kconfig_set_value")
    /\ kcCall.result = IntGivenHex
    /\ mgr.user[<<"S">>] = Fragment[<<"S">>]
    /\ mgr.user[<<"N">>] = InitialConfig.values[<<"N">>]
    /\ disk[KNuttx] = InitialConfig

(* ------------- cli.py: the commands and the Kconfig file -------------- *)

\* An option of the command line is given: Python's truth of its value.
Given(option) == option # None /\ option # Str(<<>>)

\* What a kconfig command did: its exit status, the .config files it
\* leaves, the calls it made on the ConfigManager class and instance, the
\* action it chose and the result of that action's method.
Kcli(exit, files, calls, action, result) ==
    [exit |-> exit, disk |-> files, calls |-> calls, action |-> action,
     result |-> result]

\* The exit status after a method call: an exception that is not a
\* ClickException ends the process with status 1.
ExitOf(result) == IF result.outcome = "raise" THEN 1 ELSE 0

\* What a branch of kconfig did with the result `did` of its method.
Branch(did, calls, action) ==
    Kcli(ExitOf(did.result), disk, calls, action, did.result)

\* A --set-str branch that also writes the configuration.
kcli_set_str_applying(user, dir, name, value) ==
    Kcli(ExitOf(kconfig_set_str(user, name.str, value).result),
         kconfig_apply_changes(kconfig_set_str(user, name.str, value).user,
                               dir, FALSE).disk,
         <<"ConfigManager", "kconfig_set_str", "kconfig_apply_changes">>,
         "set_str", kconfig_set_str(user, name.str, value).result)

\* The --set-str branch of kconfig.
kcli_set_str(user, dir, name, value) ==
    Branch(kconfig_set_str(user, name.str, value),
           <<"ConfigManager", "kconfig_set_str">>, "set_str")

\* The --apply branch of kconfig: write_config() in the working directory
\* the constructor left.
kcli_apply(applied) ==
    Kcli(ExitOf(applied.result), applied.disk,
         <<"ConfigManager", "kconfig_apply_changes">>, "apply",
         applied.result)

\* The branches of kconfig on the instance `made.mgr`: the first whose
\* option is given. kconfig_merge_config_file is called with two arguments
\* and takes one: the call raises TypeError.
kcli_branches(made, read, set_val, set_str, apply, merge, value) ==
    IF made.result.outcome = "raise"
    THEN Kcli(1, disk, <<"ConfigManager">>, "none", made.result)
    ELSE IF Given(read)
    THEN Branch(kconfig_read(made.mgr.user, read.str),
                <<"ConfigManager", "kconfig_read">>, "read")
    ELSE IF Given(set_val)
    THEN Branch(kconfig_set_value(made.mgr.user, set_val.str, value),
                <<"ConfigManager", "kconfig_set_value">>, "set_value")
    ELSE IF Given(set_str)
    THEN kcli_set_str(made.mgr.user, made.procCwd, set_str, value)
    ELSE IF apply
    THEN kcli_apply(kconfig_apply_changes(made.mgr.user, made.procCwd, FALSE))
    ELSE IF merge
    THEN Kcli(1, disk, <<"ConfigManager", "kconfig_merge_config_file">>,
              "merge", Error("TypeError", "positional arguments"))
    ELSE Kcli(0, disk, <<"ConfigManager">>, "none", Return(None))

\* kconfig after prepare_env returned or raised `env`: a ConfigManager of
\* its own on the workspace of the record.
kcli_prepared(env, read, set_val, set_str, apply, merge, value) ==
    IF env.outcome = "raise" THEN Kcli(1, disk, <<>>, "none", env)
    ELSE kcli_branches(ConfigManager(env.value.nuttxspace_path,
                                     env.value.nuttx_dir, None),
                       read, set_val, set_str, apply, merge, value)

\* kconfig, run in directory `dir`.
cli_kconfig(dir, read, set_val, set_str, apply, merge, value) ==
    kcli_prepared(prepare_env(dir), read, set_val, set_str, apply, merge,
                  value)

\* builder.make(command) with the tool exiting with `code`.
make(command, code) == RunCommand(MakeCmd(<<command>>), code)

\* make: sys.exit(result.returncode).
cli_make(dir, command, code) ==
    LET env == prepare_env(dir)
        result == make(command, code)
    IN  IF env.outcome = "raise" THEN Exited(1, ntxenv, <<>>)
        ELSE IF "returncode" \in DOMAIN result
        THEN Exited(result.returncode, ntxenv, <<"make">>)
        ELSE Exited(1, ntxenv, <<"make">>)

\* menuconfig: the result of builder.run_menuconfig() is not looked at.
cli_menuconfig(dir, code) ==
    LET env == prepare_env(dir)
    IN  IF env.outcome = "raise" THEN Exited(1, ntxenv, <<>>)
        ELSE Exited(0, ntxenv, <<"make menuconfig">>)

\* The exception prepare_env ends a command with, or None.
PrepareError(dir) ==
    LET env == prepare_env(dir)
    IN  IF env.outcome = "raise" THEN env ELSE None

CmdFrame ==
    UNCHANGED <<cwd, locVars, envCall, lastSave, buildVars, tree, osenv,
                procCwd, mgr, kcCall, runVars, nxVars>>

\* A command ends: the record files and the .config files it leaves, and
\* what it did.
Invoked(op, exit, store, files, ran, calls, error) ==
    /\ ntxenv' = store
    /\ disk' = files
    /\ cliCall' = [op |-> op, exit |-> exit, ran |-> ran, calls |-> calls,
                   error |-> error, before |-> ntxenv]
    /\ CmdFrame

\* The .config files with that of the workspace replaced.
WithConfig(file) == [disk EXCEPT ![KNuttx] = file]

\* start with the names of the workspace; tools/configure.sh leaves a
\* .config when it exits 0.
CmdStart(build_tool, code) ==
    LET did == start(cwd, NUTTX_DEFAULT_DIR_NAME, NUTTX_APPS_DEFAULT_DIR_NAME,
                     build_tool, "sim", "nsh", "none", code)
    IN  /\ ntxenv' = did.store
        /\ disk' = IF did.setup = Return(0) /\ did.ran # <<>>
                   THEN WithConfig(InitialConfig) ELSE disk
        /\ cliCall' = [op |-> "start", exit |-> did.exit, ran |-> did.ran,
                       calls |-> <<>>, error |-> None, before |-> ntxenv,
                       root |-> did.root, setup |-> did.setup]
        /\ CmdFrame

CmdBuild(parallel, code) ==
    LET did == cli_build(cwd, parallel, code)
    IN  Invoked("build", did.exit, did.store, disk, did.ran, <<>>,
                PrepareError(cwd))

CmdClean(code) ==
    LET did == cli_clean(cwd, code)
    IN  Invoked("clean", did.exit, did.store, disk, did.ran, <<>>,
                PrepareError(cwd))

\* make distclean removes the .config when it exits 0.
CmdDistclean(code) ==
    LET did == cli_distclean(cwd, code)
    IN  Invoked("distclean", did.exit, did.store,
                IF did.ran # <<>> /\ code = 0 THEN WithConfig(NoConfig)
                ELSE disk,
                did.ran, <<>>, PrepareError(cwd))

CmdMake(code) ==
    LET did == cli_make(cwd, "all", code)
    IN  Invoked("make", did.exit, did.store, disk, did.ran, <<>>,
                PrepareError(cwd))

\* The user may save an edited .config in the menu.
CmdMenuconfig(code, saved) ==
    LET did == cli_menuconfig(cwd, code)
        base == IF disk[KNuttx] = NoConfig THEN InitialConfig
                ELSE disk[KNuttx]
    IN  Invoked("menuconfig", did.exit, did.store,
                IF did.ran # <<>> /\ saved THEN WithConfig(MenuEdit(base))
                ELSE disk,
                did.ran, <<>>, PrepareError(cwd))

CmdInfo ==
    LET did == cli_info(cwd)
    IN  Invoked("info", did.exit, did.store, disk, did.ran, <<>>,
                PrepareError(cwd))

\* The options of a kconfig command line.
Options(read, set_val, set_str, apply, merge, value) ==
    [read |-> read, set_value |-> set_val, set_str |-> set_str,
     apply |-> apply, merge |-> merge, value |-> value]

CmdKconfig(read, set_val, set_str, apply, merge, value) ==
    \E did \in {cli_kconfig(cwd, read, set_val, set_str, apply, merge, value)} :
        /\ ntxenv' = ntxenv
        /\ disk' = did.disk
        /\ cliCall' = [op |-> "kconfig", exit |-> did.exit, ran |-> <<>>,
                       calls |-> did.calls, error |-> PrepareError(cwd),
                       before |-> ntxenv, action |-> did.action,
                       result |-> did.result,
                       options |-> Options(read, set_val, set_str, apply,
                                           merge, value)]
        /\ CmdFrame

\* Marker files are created or removed between two commands.
MarkersChange(m) ==
    /\ m # markers
    /\ markers' = m
    /\ cliCall' = NoCall
    /\ UNCHANGED <<cwd, rel_apps_path, buildCall, locVars, envVars, kcVars,
                   runVars, nxVars>>

\* The command lines of kconfig: each action alone, with a value or without
\* one, and two actions at once.
KconfigLines ==
    {Options(Str(<<"S">>), None, None, FALSE, FALSE, None),
     Options(Str(<<"S">>), None, None, TRUE, FALSE, None),
     Options(None, Str(<<"N">>), None, FALSE, FALSE, Str(<<"7">>)),
     Options(None, Str(<<"N">>), None, FALSE, FALSE, None),
     Options(None, None, Str(<<"S">>), FALSE, FALSE, Str(<<"t">>)),
     Options(None, None, Str(<<"N">>), FALSE, FALSE, Str(<<"t">>)),
     Options(None, None, Str(<<"S">>), TRUE, FALSE, Str(<<"t">>)),
     Options(None, None, None, TRUE, FALSE, None),
     Options(None, None, None, TRUE, TRUE, Str(<<"/", "f">>)),
     Options(None, None, None, FALSE, TRUE, Str(<<"/", "f">>)),
     Options(None, None, None, FALSE, FALSE, None)}

InitCommands ==
    /\ entries = Workspace(KWorkspace)
    /\ found = NoCall
    /\ ntxenv = [d \in Dirs |-> NoFile]
    /\ envCall = NoCall
    /\ lastSave = NoCall
    /\ markers \in CliMarkerStates
    /\ rel_apps_path = None
    /\ buildCall = NoCall
    /\ cwd \in Dirs
    /\ cliCall = NoCall
    /\ tree = CompleteTree
    /\ disk = [d \in ConfigDirs |-> NoConfig]
    /\ procCwd = cwd
    /\ osenv = [py |-> NoEnv, c |-> NoEnv]
    /\ mgr = None
    /\ kcCall = NoCall
    /\ RunIdle
    /\ NxIdle

NextCommands ==
    \/ \E build_tool \in BuildTools, code \in ExitCodes :
           CmdStart(build_tool, code)
    \/ \E parallel \in Parallels, code \in ExitCodes : CmdBuild(parallel, code)
    \/ \E code \in ExitCodes : CmdClean(code)
    \/ \E code \in ExitCodes : CmdDistclean(code)
    \/ \E code \in ExitCodes : CmdMake(code)
    \/ \E code \in ExitCodes, saved \in BOOLEAN : CmdMenuconfig(code, saved)
    \/ CmdInfo
    \/ \E o \in KconfigLines :
           CmdKconfig(o.read, o.set_value, o.set_str, o.apply, o.merge,
                      o.value)
    \/ \E m \in CliMarkerStates : MarkersChange(m)

SpecCommands == InitCommands /\ [][NextCommands]_vars

(* ------------------- claims on the commands --------------------------- *)

NonStartOps ==
    {"build", "clean", "distclean", "make", "menuconfig", "kconfig", "info"}

\* The step is a run of the command `op`.
Runs(op) == cliCall'.op = op

\* The command of the step ran an external tool or used the ConfigManager.
Invokes == cliCall'.ran # <<>> \/ cliCall'.calls # <<>>

\* The record of the working directory can be loaded before the step.
RecordLoads ==
    /\ load_ntx_env(cwd).outcome = "return"
    /\ load_ntx_env(cwd).value # None

\* The command of the step failed with "No .ntxenv found" and exit code 1
\* and invoked nothing.
FailsWithNoNtxenv ==
    /\ cliCall'.exit = 1
    /\ cliCall'.error = Raise("ClickException")
    /\ ~Invokes

\* A command that is not start invokes a tool or the ConfigManager only when
\* the record loads, and fails with "No .ntxenv found" when there is none.
RecordGatesCommands ==
    (\E op \in NonStartOps : Runs(op)) =>
        /\ Invokes => RecordLoads
        /\ ~RecordAt(cwd) => FailsWithNoNtxenv

Chosen(options) ==
    IF Given(options.read) THEN "read"
    ELSE IF Given(options.set_value) THEN "set_value"
    ELSE IF Given(options.set_str) THEN "set_str"
    ELSE IF options.apply THEN "apply"
    ELSE IF options.merge THEN "merge"
    ELSE "none"

\* C30: each kconfig invocation constructs its own ConfigManager, performs
\* at most one action, the first of read, set-value, set-str, apply and
\* merge that is given, and calls kconfig_apply_changes only for apply; a
\* set-value, set-str or merge invocation leaves every .config as it was,
\* and an apply invocation writes the values of the .config it loaded.
C30_OneActionPerInvocation ==
    [][Runs("kconfig") =>
        LET call == cliCall'
        IN  /\ mgr' = mgr
            /\ call.calls # <<>> =>
                   /\ call.calls[1] = "ConfigManager"
                   /\ Len(call.calls) <= 2
                   /\ \A i \in 2..Len(call.calls) :
                          call.calls[i] # "ConfigManager"
            /\ call.action \in {"none", Chosen(call.options)}
            /\ Len(call.calls) = 2 => call.action = Chosen(call.options)
            /\ (\E i \in DOMAIN call.calls :
                    call.calls[i] = "kconfig_apply_changes")
                   => call.action = "apply"
            /\ call.action \in {"read", "set_value", "set_str", "merge"}
                   => disk' = disk
            /\ (call.action = "apply" /\ call.exit = 0)
                   => disk' = WithConfig(
                                  ConfigFile(Effective(disk[KNuttx].values)))]_vars

\* C30 witness: kconfig --set-str S t --apply set the string in its own
\* manager and exited 0, and the .config still holds the value a menuconfig
\* saved.
C30_Witness ==
    /\ cliCall.op = "kconfig"
    /\ cliCall.action = "set_str"
    /\ cliCall.options.apply
    /\ cliCall.result = Return(TRUE)
    /\ cliCall.exit = 0
    /\ disk[KNuttx] = MenuEdit(InitialConfig)

====
